---- MODULE Spec2Model ----
(***************************************************************************)
(* A model of the spaced-repetition scheduler of the learning app:         *)
(*   - the SM-2 ease/interval calculator (services/spaced_repetition.py),  *)
(*   - the math template registry, parameter generator and grader          *)
(*     (services/math_problems.py),                                        *)
(*   - the due-item selector and the submit handlers (routers/learn.py,    *)
(*     routers/math.py) over the question / progress / review tables.      *)
(*                                                                         *)
(* Numbers.  Ease factors are held in hundredths (2.5 is 250): every ease  *)
(* the calculator returns is round(x, 2).  Timestamps are minutes.  An     *)
(* optional value (a Python None, an SQL NULL) is the empty sequence <<>>  *)
(* and a present value v is <<v>>.                                         *)
(***************************************************************************)
EXTENDS Integers, Sequences, FiniteSets, TLC

VARIABLES
    calc,       \* one call of the calculator: its arguments and its result
    card,       \* one scheduling record driven through a sequence of updates
    gen,        \* one call of generate_params: the template and the assignment
    now,        \* the clock (datetime.now() / SQL now()), in minutes
    questions,  \* table questions: id -> row
    progress,   \* table math_template_progress: template_type -> <<row>> or <<>>
    mathq,      \* table math_questions: sequence of rows, the id is the index
    reviews,    \* table reviews: sequence of rows (append-only)
    mreviews,   \* table math_reviews: sequence of rows (append-only)
    procs,      \* the request handlers in flight: process -> frame
    sel,        \* the last response of a GET handler (next question, history)
    llm,        \* app.config and app.services.llm: settings, override, cached client
    db          \* app.database: the module's _pool and _schema_ready

vars == <<calc, card, gen, now, questions, progress, mathq, reviews, mreviews, procs, sel, llm, db>>

\* ------------------------------------------------------------------ bounds

\* Largest ease (hundredths) the model lets a record reach.
MaxEase == 300
\* Ease inputs of the calculator are 130, 130 + EaseStep, ... up to MaxEase.
EaseStep == 5
\* Scores offered to the calculator run from 1 - ScoreSlack to 5 + ScoreSlack.
ScoreSlack == 1
\* Attempt counts offered to the calculator: 0 .. MaxCount.
MaxCount == 1
\* Clock values offered to the calculator: multiples of a minute, 0 .. MaxNow.
MaxNow == 1
\* Updates applied to one scheduling record in the sequence specification.
MaxUpdates == 10
\* random.uniform and random.randint draw the points 0/UGrid .. UGrid/UGrid of a range.
UGrid == 4
\* Rows of the questions table in the selector specification.
MaxQuestions == 2
\* Request handlers in flight in the interleaving specification.
MaxProcs == 2
\* Math questions generated in the interleaving specification.
MaxMathQ == 1
\* requests answered one after another in SpecMath, after the first
MaxSubmits == 4
\* text-generator calls logged in SpecLLM
MaxCalls == 3
\* length of the tags list of a request body in SpecTags
MaxTagList == 3
\* successes applied to a record that is already at the cap, in SpecRun
MaxKept == 1
\* get_pool calls and close_pool calls of one process, in SpecPool
MaxGets == 4
MaxCloses == 2

\* ------------------------------------------------------------- primitives

None == <<>>
Some(v) == <<v>>
IsNone(o) == o = <<>>
Val(o) == o[1]

Min(a, b) == IF a <= b THEN a ELSE b
Max(a, b) == IF a >= b THEN a ELSE b

\* timedelta(minutes=10) and timedelta(days=1), in minutes.
TenMinutes == 10
DayMinutes == 1440
\* The floor of the ease factor (1.3) and the default ease (2.5), in hundredths.
EaseFloor == 130
DefaultEase == 250
\* The cap of interval_days.
CapDays == 365

\* Python's round(n / d) for an exactly represented quotient: to the nearest
\* integer, a tie to the even one.
RoundHalfEven(n, d) ==
    LET q == n \div d
        r == n % d
    IN  IF 2 * r > d \/ (2 * r = d /\ q % 2 = 1) THEN q + 1 ELSE q

\* ------------------------------------ services/spaced_repetition.py

\* The triples <<current_ease, score, current_interval>> (ease in hundredths
\* up to 400, score 3..5, interval 2..365) at which the double-precision
\* product current_interval * new_ease of calculate_next_review is not the
\* exact decimal product and Python's round() of it differs from the round
\* to nearest, ties to even, of the exact product.  In all of them the exact
\* product is a tie k + 0.5; new_ease here is the unrounded sum
\* current_ease + (0.1 - (5 - q) * (0.08 + (5 - q) * 0.02)), floored at 1.3.
FloatTieFlips ==
  {
     <<131, 5, 250>>, <<132, 5, 75>>, <<132, 5, 175>>, <<132, 5, 275>>, <<133, 5, 150>>, <<133, 5, 350>>,
     <<135, 4, 350>>, <<135, 5, 10>>, <<135, 5, 50>>, <<135, 5, 90>>, <<135, 5, 130>>, <<135, 5, 170>>,
     <<135, 5, 210>>, <<135, 5, 250>>, <<135, 5, 290>>, <<135, 5, 330>>, <<136, 5, 25>>, <<136, 5, 125>>,
     <<136, 5, 225>>, <<136, 5, 325>>, <<137, 5, 150>>, <<137, 5, 350>>, <<138, 4, 75>>, <<138, 4, 175>>,
     <<138, 4, 275>>, <<149, 3, 350>>, <<152, 3, 125>>, <<152, 3, 325>>, <<153, 3, 150>>, <<153, 3, 350>>,
     <<153, 5, 150>>, <<155, 3, 250>>, <<155, 5, 130>>, <<155, 5, 250>>, <<155, 5, 290>>, <<156, 3, 75>>,
     <<156, 3, 175>>, <<156, 3, 275>>, <<156, 5, 75>>, <<156, 5, 275>>, <<157, 3, 150>>, <<157, 3, 350>>,
     <<157, 5, 150>>, <<159, 3, 10>>, <<159, 3, 50>>, <<159, 3, 90>>, <<159, 3, 130>>, <<159, 3, 170>>,
     <<159, 3, 210>>, <<159, 3, 250>>, <<159, 3, 290>>, <<159, 3, 330>>, <<159, 5, 50>>, <<159, 5, 250>>,
     <<160, 3, 25>>, <<160, 3, 125>>, <<160, 3, 225>>, <<160, 3, 325>>, <<160, 5, 25>>, <<160, 5, 45>>,
     <<160, 5, 65>>, <<160, 5, 85>>, <<160, 5, 105>>, <<160, 5, 125>>, <<160, 5, 145>>, <<160, 5, 165>>,
     <<160, 5, 185>>, <<160, 5, 205>>, <<160, 5, 225>>, <<160, 5, 245>>, <<160, 5, 265>>, <<160, 5, 285>>,
     <<160, 5, 325>>, <<160, 5, 345>>, <<160, 5, 365>>, <<161, 3, 150>>, <<161, 3, 350>>, <<161, 5, 350>>,
     <<177, 3, 150>>, <<179, 3, 130>>, <<179, 3, 250>>, <<179, 3, 290>>, <<179, 5, 250>>, <<180, 3, 75>>,
     <<180, 3, 275>>, <<180, 5, 15>>, <<180, 5, 55>>, <<180, 5, 115>>, <<180, 5, 215>>, <<180, 5, 235>>,
     <<180, 5, 255>>, <<181, 3, 150>>, <<183, 3, 50>>, <<183, 3, 250>>, <<183, 5, 50>>, <<183, 5, 250>>,
     <<184, 3, 25>>, <<184, 3, 45>>, <<184, 3, 65>>, <<184, 3, 85>>, <<184, 3, 105>>, <<184, 3, 125>>,
     <<184, 3, 145>>, <<184, 3, 165>>, <<184, 3, 185>>, <<184, 3, 205>>, <<184, 3, 225>>, <<184, 3, 245>>,
     <<184, 3, 265>>, <<184, 3, 285>>, <<184, 3, 325>>, <<184, 3, 345>>, <<184, 3, 365>>, <<184, 5, 25>>,
     <<184, 5, 125>>, <<184, 5, 225>>, <<185, 3, 350>>, <<185, 5, 30>>, <<185, 5, 110>>, <<185, 5, 190>>,
     <<185, 5, 230>>, <<185, 5, 350>>, <<187, 3, 50>>, <<187, 3, 250>>, <<187, 5, 50>>, <<187, 5, 250>>,
     <<191, 5, 150>>, <<191, 5, 350>>, <<193, 5, 50>>, <<193, 5, 250>>, <<195, 5, 30>>, <<195, 5, 110>>,
     <<195, 5, 190>>, <<195, 5, 230>>, <<195, 5, 350>>, <<197, 5, 50>>, <<201, 3, 250>>, <<201, 4, 150>>,
     <<201, 4, 350>>, <<203, 4, 50>>, <<203, 4, 250>>, <<204, 3, 15>>, <<204, 3, 55>>, <<204, 3, 115>>,
     <<204, 3, 215>>, <<204, 3, 235>>, <<204, 3, 255>>, <<205, 4, 30>>, <<205, 4, 110>>, <<205, 4, 190>>,
     <<205, 4, 230>>, <<205, 4, 350>>, <<207, 4, 50>>, <<208, 3, 25>>, <<208, 3, 125>>, <<208, 3, 225>>,
     <<208, 5, 25>>, <<208, 5, 225>>, <<212, 3, 75>>, <<212, 3, 175>>, <<212, 5, 75>>, <<212, 5, 175>>,
     <<215, 3, 150>>, <<215, 3, 350>>, <<216, 5, 25>>, <<216, 5, 125>>, <<216, 5, 225>>, <<216, 5, 325>>,
     <<217, 3, 50>>, <<217, 3, 250>>, <<218, 4, 25>>, <<218, 4, 225>>, <<219, 3, 30>>, <<219, 3, 110>>,
     <<219, 3, 190>>, <<219, 3, 230>>, <<219, 3, 350>>, <<220, 5, 15>>, <<220, 5, 35>>, <<220, 5, 55>>,
     <<220, 5, 75>>, <<220, 5, 95>>, <<220, 5, 115>>, <<220, 5, 135>>, <<220, 5, 155>>, <<220, 5, 175>>,
     <<220, 5, 195>>, <<220, 5, 215>>, <<220, 5, 235>>, <<220, 5, 255>>, <<220, 5, 275>>, <<220, 5, 295>>,
     <<220, 5, 315>>, <<220, 5, 335>>, <<220, 5, 355>>, <<221, 3, 50>>, <<222, 4, 75>>, <<222, 4, 175>>,
     <<224, 5, 25>>, <<224, 5, 125>>, <<224, 5, 225>>, <<224, 5, 325>>, <<226, 4, 75>>, <<226, 4, 175>>,
     <<226, 4, 275>>, <<228, 3, 25>>, <<228, 3, 125>>, <<228, 3, 225>>, <<228, 3, 325>>, <<230, 4, 25>>,
     <<230, 4, 45>>, <<230, 4, 85>>, <<230, 4, 105>>, <<230, 4, 165>>, <<230, 4, 185>>, <<230, 4, 205>>,
     <<230, 4, 325>>, <<230, 4, 345>>, <<230, 4, 365>>, <<232, 3, 75>>, <<232, 3, 175>>, <<232, 3, 275>>,
     <<235, 5, 50>>, <<235, 5, 90>>, <<235, 5, 170>>, <<235, 5, 330>>, <<236, 3, 25>>, <<236, 3, 125>>,
     <<236, 3, 225>>, <<236, 3, 325>>, <<237, 5, 150>>, <<237, 5, 350>>, <<239, 5, 50>>, <<240, 3, 75>>,
     <<240, 3, 175>>, <<240, 3, 275>>, <<241, 5, 150>>, <<241, 5, 350>>, <<243, 5, 50>>, <<243, 5, 250>>,
     <<244, 3, 25>>, <<244, 3, 45>>, <<244, 3, 85>>, <<244, 3, 105>>, <<244, 3, 165>>, <<244, 3, 185>>,
     <<244, 3, 205>>, <<244, 3, 325>>, <<244, 3, 345>>, <<244, 3, 365>>, <<245, 4, 50>>, <<245, 4, 90>>,
     <<245, 4, 170>>, <<245, 4, 330>>, <<245, 5, 30>>, <<245, 5, 70>>, <<245, 5, 110>>, <<245, 5, 150>>,
     <<245, 5, 190>>, <<245, 5, 230>>, <<245, 5, 270>>, <<245, 5, 310>>, <<245, 5, 350>>, <<247, 4, 150>>,
     <<247, 4, 350>>, <<247, 5, 250>>, <<249, 4, 50>>, <<249, 5, 150>>, <<249, 5, 350>>, <<251, 3, 150>>,
     <<251, 3, 350>>, <<251, 4, 50>>, <<253, 3, 50>>, <<253, 3, 250>>, <<253, 4, 150>>, <<253, 4, 350>>,
     <<255, 3, 150>>, <<255, 3, 350>>, <<255, 4, 50>>, <<255, 4, 90>>, <<255, 4, 170>>, <<255, 4, 330>>,
     <<257, 3, 50>>, <<257, 3, 250>>, <<259, 3, 30>>, <<259, 3, 70>>, <<259, 3, 110>>, <<259, 3, 150>>,
     <<259, 3, 190>>, <<259, 3, 230>>, <<259, 3, 270>>, <<259, 3, 310>>, <<259, 3, 350>>, <<260, 5, 175>>,
     <<260, 5, 335>>, <<260, 5, 355>>, <<261, 3, 50>>, <<261, 3, 250>>, <<263, 3, 150>>, <<263, 3, 350>>,
     <<264, 5, 325>>, <<265, 3, 50>>, <<267, 3, 150>>, <<267, 3, 350>>, <<268, 5, 75>>, <<268, 5, 175>>,
     <<268, 5, 275>>, <<269, 3, 50>>, <<269, 3, 90>>, <<269, 3, 170>>, <<269, 3, 330>>, <<270, 4, 175>>,
     <<270, 4, 335>>, <<270, 4, 355>>, <<272, 5, 125>>, <<272, 5, 225>>, <<272, 5, 325>>, <<274, 4, 325>>,
     <<276, 3, 25>>, <<276, 3, 125>>, <<276, 3, 225>>, <<276, 3, 325>>, <<278, 4, 325>>, <<280, 3, 75>>,
     <<280, 3, 175>>, <<280, 3, 275>>, <<284, 3, 5>>, <<284, 3, 45>>, <<284, 3, 65>>, <<284, 3, 85>>,
     <<284, 3, 125>>, <<284, 3, 145>>, <<284, 3, 165>>, <<284, 3, 185>>, <<284, 3, 225>>, <<284, 3, 245>>,
     <<284, 3, 265>>, <<284, 3, 285>>, <<284, 3, 305>>, <<284, 3, 325>>, <<284, 3, 345>>, <<284, 3, 365>>,
     <<288, 3, 75>>, <<288, 3, 175>>, <<288, 3, 275>>, <<289, 5, 150>>, <<291, 5, 250>>, <<292, 3, 325>>,
     <<293, 5, 150>>, <<295, 5, 10>>, <<295, 5, 130>>, <<295, 5, 250>>, <<295, 5, 290>>, <<295, 5, 330>>,
     <<297, 5, 150>>, <<299, 4, 150>>, <<299, 5, 50>>, <<299, 5, 250>>, <<301, 3, 50>>, <<301, 3, 250>>,
     <<301, 4, 150>>, <<303, 3, 150>>, <<303, 3, 350>>, <<305, 3, 50>>, <<305, 3, 250>>, <<307, 3, 150>>,
     <<309, 3, 10>>, <<309, 3, 130>>, <<309, 3, 170>>, <<309, 3, 250>>, <<309, 3, 290>>, <<309, 3, 330>>,
     <<311, 3, 150>>, <<313, 3, 250>>, <<315, 3, 150>>, <<316, 5, 75>>, <<316, 5, 275>>, <<320, 5, 65>>,
     <<320, 5, 125>>, <<320, 5, 145>>, <<320, 5, 225>>, <<320, 5, 245>>, <<320, 5, 265>>, <<320, 5, 285>>,
     <<320, 5, 305>>, <<324, 5, 75>>, <<324, 5, 275>>, <<328, 3, 75>>, <<328, 3, 275>>, <<332, 3, 125>>,
     <<332, 3, 225>>, <<336, 3, 75>>, <<336, 3, 275>>, <<343, 5, 250>>, <<345, 5, 30>>, <<345, 5, 70>>,
     <<345, 5, 110>>, <<345, 5, 230>>, <<345, 5, 270>>, <<347, 5, 250>>, <<351, 3, 150>>, <<351, 3, 350>>,
     <<353, 3, 50>>, <<353, 3, 250>>, <<355, 3, 150>>, <<357, 3, 250>>, <<359, 3, 30>>, <<359, 3, 70>>,
     <<359, 3, 110>>, <<359, 3, 230>>, <<359, 3, 270>>, <<361, 3, 250>>, <<368, 5, 125>>, <<376, 3, 175>>,
     <<376, 3, 275>>, <<380, 3, 25>>, <<380, 3, 125>>, <<380, 3, 225>>, <<384, 3, 15>>, <<384, 3, 55>>,
     <<384, 3, 115>>, <<384, 3, 135>>, <<384, 3, 215>>, <<384, 3, 235>>, <<384, 3, 255>>, <<384, 3, 275>>,
     <<388, 3, 125>>, <<392, 5, 75>>, <<392, 5, 175>>, <<392, 5, 275>>, <<396, 5, 25>>, <<396, 5, 125>>,
     <<396, 5, 225>>, <<396, 5, 325>>, <<400, 5, 15>>, <<400, 5, 55>>, <<400, 5, 95>>, <<400, 5, 115>>,
     <<400, 5, 175>>, <<400, 5, 195>>, <<400, 5, 215>>, <<400, 5, 235>>, <<400, 5, 335>>, <<400, 5, 355>> }

ClampScore_Unclamped(score) == score

\* score = max(1, min(5, score))
ClampScore(score) == Max(1, Min(5, score))

\* 0.1 - (5 - q) * (0.08 + (5 - q) * 0.02), in hundredths.
EaseDelta(q) == 10 - (5 - q) * (8 + (5 - q) * 2)

NewEase_NoFloor(score, current_ease) ==
    current_ease + EaseDelta(ClampScore(score))

\* new_ease = max(1.3, current_ease + (0.1 - ...)), in hundredths.  It is also
\* the returned round(new_ease, 2): the sum is within 1e-15 of a hundredth.
NewEase(score, current_ease) ==
    Max(EaseFloor, current_ease + EaseDelta(ClampScore(score)))

RoundProduct_Truncated(score, current_ease, current_interval) ==
    (current_interval * NewEase(score, current_ease)) \div 100

\* round(current_interval * new_ease) on doubles.
RoundProduct(score, current_ease, current_interval) ==
    LET n     == current_interval * NewEase(score, current_ease)
        exact == RoundHalfEven(n, 100)
        k     == n \div 100
    IN  IF n % 100 = 50
           /\ <<current_ease, ClampScore(score), current_interval>> \in FloatTieFlips
        THEN (IF exact = k THEN k + 1 ELSE k)
        ELSE exact

\* The pairs <<ease, interval>>, ease a multiple of 0.01 in hundredths, where
\* round(interval * ease) on doubles is not the half-even rounding of the exact
\* product: the product is a tie that the double nearest to the ease misses.
StoredTieFlips ==
  {
     <<135, 350>>, <<138, 75>>, <<138, 175>>, <<138, 275>>, <<201, 150>>, <<201, 350>>, <<203, 50>>, <<203, 250>>,
     <<205, 30>>, <<205, 110>>, <<205, 190>>, <<205, 230>>, <<205, 350>>, <<207, 50>>, <<218, 25>>, <<218, 225>>,
     <<222, 75>>, <<222, 175>>, <<226, 75>>, <<226, 175>>, <<226, 275>>, <<230, 25>>, <<230, 45>>, <<230, 85>>,
     <<230, 105>>, <<230, 165>>, <<230, 185>>, <<230, 205>>, <<230, 325>>, <<230, 345>>, <<230, 365>>, <<245, 50>>,
     <<245, 90>>, <<245, 170>>, <<245, 330>>, <<247, 150>>, <<247, 350>>, <<249, 50>>, <<251, 50>>, <<253, 150>>,
     <<253, 350>>, <<255, 50>>, <<255, 90>>, <<255, 170>>, <<255, 330>>, <<270, 175>>, <<270, 335>>, <<270, 355>>,
     <<274, 325>>, <<278, 325>>, <<299, 150>>, <<301, 150>>, <<402, 75>>, <<402, 175>>, <<402, 275>>, <<406, 25>>,
     <<406, 125>>, <<406, 225>>, <<406, 325>>, <<410, 15>>, <<410, 55>>, <<410, 95>>, <<410, 115>>, <<410, 175>>,
     <<410, 195>>, <<410, 215>>, <<410, 235>>, <<410, 335>>, <<410, 355>> }

\* round(interval * ease) on doubles, for an ease that is a multiple of 0.01.
RoundStoredProduct(ease, interval) ==
    LET n     == interval * ease
        exact == RoundHalfEven(n, 100)
        k     == n \div 100
    IN  IF n % 100 = 50 /\ <<ease, interval>> \in StoredTieFlips
        THEN (IF exact = k THEN k + 1 ELSE k)
        ELSE exact

\* The rounding of n / d that takes a tie upwards.
RoundHalfUp(n, d) == (2 * n + d) \div (2 * d)

NewInterval_NoFirstSuccess(score, current_ease, current_interval, review_count) ==
    IF ClampScore(score) < 3 THEN 0
    ELSE IF current_interval = 1 THEN 3
    ELSE RoundProduct(score, current_ease, current_interval)

NewInterval_NoSecondSuccess(score, current_ease, current_interval, review_count) ==
    IF ClampScore(score) < 3 THEN 0
    ELSE IF review_count = 0 \/ current_interval = 0 THEN 1
    ELSE RoundProduct(score, current_ease, current_interval)

\* The if / elif chain that picks new_interval, before the cap.
NewInterval(score, current_ease, current_interval, review_count) ==
    IF ClampScore(score) < 3 THEN 0
    ELSE IF review_count = 0 \/ current_interval = 0 THEN 1
    ELSE IF current_interval = 1 THEN 3
    ELSE RoundProduct(score, current_ease, current_interval)

CapInterval_NoCap(new_interval) == new_interval

\* new_interval = min(365, new_interval)
CapInterval(new_interval) == Min(CapDays, new_interval)

NextReviewAt_DaysOnly(new_interval, t) == t + new_interval * DayMinutes

\* now + 10 minutes for a failed card, now + new_interval days otherwise.
NextReviewAt(new_interval, t) ==
    IF new_interval = 0 THEN t + TenMinutes ELSE t + new_interval * DayMinutes

\* calculate_next_review(score, current_ease, current_interval, review_count),
\* with the datetime.now() it reads as the argument t.
calculate_next_review(score, current_ease, current_interval, review_count, t) ==
    LET new_interval ==
            CapInterval(NewInterval(score, current_ease, current_interval, review_count))
    IN  [ease_factor    |-> NewEase(score, current_ease),
         interval_days  |-> new_interval,
         next_review_at |-> NextReviewAt(new_interval, t)]

calculate_math_review_FiveOne(is_correct, current_ease, current_interval, total_attempts, t) ==
    calculate_next_review(IF is_correct THEN 5 ELSE 1,
                          current_ease, current_interval, total_attempts, t)

\* calculate_math_review(is_correct, current_ease, current_interval, total_attempts)
calculate_math_review(is_correct, current_ease, current_interval, total_attempts, t) ==
    calculate_next_review(IF is_correct THEN 4 ELSE 2,
                          current_ease, current_interval, total_attempts, t)

\* ---------------------------------------- services/math_problems.py

\* MATH_TEMPLATES: type_id -> template.  param_ranges maps a parameter name
\* to <<min, max>> in thousandths (0.03 is 30); tolerance is in hundredths
\* (0.01 is 1).  The texts and the scipy compute functions are left out.
MATH_TEMPLATES ==
    [poisson_pmf |->
        [topic |-> "probability", tolerance |-> 1,
         param_ranges |-> [lambda |-> <<2000, 20000>>, k |-> <<0, 15000>>]],
     poisson_cdf |->
        [topic |-> "probability", tolerance |-> 1,
         param_ranges |-> [lambda |-> <<3000, 20000>>, k |-> <<1000, 12000>>]],
     poisson_survival |->
        [topic |-> "probability", tolerance |-> 1,
         param_ranges |-> [lambda |-> <<5000, 25000>>, k |-> <<3000, 15000>>]],
     binomial_pmf |->
        [topic |-> "probability", tolerance |-> 1,
         param_ranges |-> [n |-> <<5000, 20000>>, p |-> <<200, 800>>, k |-> <<1000, 15000>>]],
     binomial_cdf |->
        [topic |-> "probability", tolerance |-> 1,
         param_ranges |-> [n |-> <<8000, 25000>>, p |-> <<300, 700>>, k |-> <<2000, 18000>>]],
     normal_cdf |->
        [topic |-> "probability", tolerance |-> 1,
         param_ranges |-> [mu |-> <<50000, 150000>>, sigma |-> <<5000, 25000>>,
                           x |-> <<30000, 180000>>]],
     normal_zscore |->
        [topic |-> "probability", tolerance |-> 10,
         param_ranges |-> [mu |-> <<40000, 100000>>, sigma |-> <<5000, 20000>>,
                           x |-> <<20000, 130000>>]],
     exponential_cdf |->
        [topic |-> "probability", tolerance |-> 1,
         param_ranges |-> [lambda |-> <<500, 5000>>, x |-> <<500, 4000>>]],
     exponential_survival |->
        [topic |-> "probability", tolerance |-> 1,
         param_ranges |-> [lambda |-> <<200, 3000>>, x |-> <<500, 5000>>]],
     present_value |->
        [topic |-> "finance", tolerance |-> 100,
         param_ranges |-> [fv |-> <<1000000, 100000000>>, r |-> <<30, 120>>,
                           n |-> <<1000, 20000>>]],
     future_value |->
        [topic |-> "finance", tolerance |-> 100,
         param_ranges |-> [pv |-> <<500000, 50000000>>, r |-> <<20, 100>>,
                           n |-> <<2000, 25000>>]],
     compound_interest |->
        [topic |-> "finance", tolerance |-> 100,
         param_ranges |-> [principal |-> <<1000000, 50000000>>, rate |-> <<30, 100>>,
                           compounds_per_year |-> <<1000, 12000>>,
                           years |-> <<1000, 15000>>]]]

TemplateIds == DOMAIN MATH_TEMPLATES

\* The order of the registry: the order list(MATH_TEMPLATES...) iterates in.
TemplateOrder ==
    <<"poisson_pmf", "poisson_cdf", "poisson_survival", "binomial_pmf", "binomial_cdf",
      "normal_cdf", "normal_zscore", "exponential_cdf", "exponential_survival",
      "present_value", "future_value", "compound_interest">>

\* The first template of a non-empty set of templates, in registry order.
FirstInOrder(S) ==
    TemplateOrder[CHOOSE i \in 1..Len(TemplateOrder) :
                    /\ TemplateOrder[i] \in S
                    /\ \A j \in 1..(i - 1) : TemplateOrder[j] \notin S]

\* get_templates_by_topic(topic)
get_templates_by_topic(topic) == {t \in TemplateIds : MATH_TEMPLATES[t].topic = topic}

\* random.uniform(min_val, max_val): the point u / UGrid of the way from
\* min_val to max_val, cut to a whole thousandth.
Uniform(min_val, max_val, u) == min_val + ((max_val - min_val) * u) \div UGrid

\* random.randint(int(min_val), int(max_val)): the whole number nearest below
\* the same point (the declared ranges of n, k and compounds_per_year are whole).
RandInt(min_val, max_val, u) ==
    1000 * ((min_val \div 1000) + (((max_val \div 1000) - (min_val \div 1000)) * u) \div UGrid)

\* round(x, ndigits) of a value in thousandths; unit is 10^(3 - ndigits).
RoundTo(x, unit) == unit * RoundHalfEven(x, unit)

\* The if / elif chain of generate_params for one parameter.
SampleParam(param_name, min_val, max_val, u) ==
    IF param_name \in {"n", "k", "compounds_per_year"} THEN RandInt(min_val, max_val, u)
    ELSE IF param_name = "p" THEN RoundTo(Uniform(min_val, max_val, u), 10)
    ELSE IF param_name \in {"fv", "pv", "principal"}
         THEN RoundTo(Uniform(min_val, max_val, u), 100000)
    ELSE IF param_name = "rate" THEN RoundTo(Uniform(min_val, max_val, u), 10)
    ELSE RoundTo(Uniform(min_val, max_val, u), 100)

\* generate_params without the final min(k, n).
generate_params_NoClamp(type_id, draws) ==
    LET ranges == MATH_TEMPLATES[type_id].param_ranges
    IN  [name \in DOMAIN ranges |->
            SampleParam(name, ranges[name][1], ranges[name][2], draws[name])]

\* generate_params(template), the random draws given as draws[param_name].
generate_params(type_id, draws) ==
    LET ranges == MATH_TEMPLATES[type_id].param_ranges
        params == [name \in DOMAIN ranges |->
                      SampleParam(name, ranges[name][1], ranges[name][2], draws[name])]
    IN  IF "k" \in DOMAIN params /\ "n" \in DOMAIN params
        THEN [params EXCEPT !["k"] = Min(params["k"], params["n"])]
        ELSE params

Abs(x) == IF x < 0 THEN -x ELSE x

\* The threshold 0.0001 of grade_math_answer, in hundred-thousandths.
NearZero == 10

\* grade_math_answer with both criteria required away from zero.
grade_math_answer_BothCriteria(user_answer, correct_answer, tolerance) ==
    IF Abs(correct_answer) < NearZero
    THEN Abs(user_answer - correct_answer) < tolerance * 1000
    ELSE /\ Abs(user_answer - correct_answer) * 100 < tolerance * Abs(correct_answer)
         /\ Abs(user_answer - correct_answer) < tolerance * 1000

\* grade_math_answer(user_answer, correct_answer, tolerance)["is_correct"]; the
\* answers are in hundred-thousandths, the tolerance in hundredths:
\* relative_error < tolerance is |u - c| / |c| < tolerance / 100.
grade_math_answer(user_answer, correct_answer, tolerance) ==
    IF Abs(correct_answer) < NearZero
    THEN Abs(user_answer - correct_answer) < tolerance * 1000
    ELSE \/ Abs(user_answer - correct_answer) * 100 < tolerance * Abs(correct_answer)
         \/ Abs(user_answer - correct_answer) < tolerance * 1000

\* The one operation of grade_math_answer that can raise on floats is the
\* division by abs(correct_answer), evaluated in the else branch only:
\* ZeroDivisionError when the divisor is 0.
GradeRaises(user_answer, correct_answer, tolerance) ==
    IF Abs(correct_answer) < NearZero THEN FALSE ELSE Abs(correct_answer) = 0

\* ------------------------------------------- rows and the writes on them

\* Python's `x or d` on a number: d when x is 0.
Or(x, d) == IF x = 0 THEN d ELSE x
\* Python's `x or d` on an optional number: d when x is None or 0.
OrOpt(o, d) == IF IsNone(o) THEN d ELSE Or(Val(o), d)

\* A row of questions as create_question leaves it.  Its INSERT names none of
\* the scheduling columns; they take the defaults of the data model: ease 2.5,
\* interval 0, no review yet and no next_review_at.
NewQuestion(topic, tags) ==
    [topic |-> topic, tags |-> tags, ease_factor |-> DefaultEase,
     interval_days |-> 0, next_review_at |-> None, review_count |-> 0]

\* _submit_regular_answer: score = feedback.get("score") or 3, then
\* calculate_next_review on the fetched row.
SrForQuestion(row, fbscore, t) ==
    calculate_next_review(OrOpt(fbscore, 3),
                          Or(row.ease_factor, DefaultEase),
                          Or(row.interval_days, 0),
                          Or(row.review_count, 0), t)

\* UPDATE questions SET ease_factor = $2, interval_days = $3,
\* next_review_at = $4, review_count = review_count + 1 WHERE id = $1
UpdateQuestion(row, sr) ==
    [row EXCEPT !.ease_factor = sr.ease_factor,
                !.interval_days = sr.interval_days,
                !.next_review_at = Some(sr.next_review_at),
                !.review_count = @ + 1]

\* The calculator always fed the defaults, whatever the stored record holds.
SrForTemplate_IgnoreStored(prog, is_correct, t) ==
    calculate_math_review(is_correct, DefaultEase, 0, 0, t)

\* The submit handlers' calculate_math_review call: on the fetched progress
\* row, or on (2.5, 0, 0) when the template has none.
SrForTemplate(prog, is_correct, t) ==
    IF IsNone(prog)
    THEN calculate_math_review(is_correct, DefaultEase, 0, 0, t)
    ELSE calculate_math_review(is_correct, Val(prog).ease_factor,
                               Val(prog).interval_days, Val(prog).total_attempts, t)

\* INSERT INTO math_template_progress (..., total_attempts, correct_attempts)
\* VALUES (..., 1, $5)
InsertProgress(sr, is_correct) ==
    [ease_factor |-> sr.ease_factor, interval_days |-> sr.interval_days,
     next_review_at |-> Some(sr.next_review_at),
     total_attempts |-> 1, correct_attempts |-> IF is_correct THEN 1 ELSE 0]

\* The UPDATE without its total_attempts = total_attempts + 1.
UpdateProgress_NoCount(row, sr, is_correct) ==
    [row EXCEPT !.ease_factor = sr.ease_factor,
                !.interval_days = sr.interval_days,
                !.next_review_at = Some(sr.next_review_at),
                !.correct_attempts = @ + (IF is_correct THEN 1 ELSE 0)]

\* UPDATE math_template_progress SET ease_factor = $2, interval_days = $3,
\* next_review_at = $4, total_attempts = total_attempts + 1,
\* correct_attempts = correct_attempts + $5
UpdateProgress(row, sr, is_correct) ==
    [row EXCEPT !.ease_factor = sr.ease_factor,
                !.interval_days = sr.interval_days,
                !.next_review_at = Some(sr.next_review_at),
                !.total_attempts = @ + 1,
                !.correct_attempts = @ + (IF is_correct THEN 1 ELSE 0)]

\* --------------------------------------------- routers/learn.py: /next

\* str.lower() on the characters the inputs use.
LowerChar(c) ==
    CASE c = "W" -> "w" [] c = "O" -> "o" [] c = "R" -> "r" [] c = "K" -> "k"
      [] c = "H" -> "h" [] c = "M" -> "m" [] c = "E" -> "e" [] OTHER -> c
Lower(str) == [i \in 1..Len(str) |-> LowerChar(str[i])]

\* str.strip(): leading and trailing blanks removed.
RECURSIVE LStrip(_)
LStrip(str) == IF str # <<>> /\ Head(str) = " " THEN LStrip(Tail(str)) ELSE str
RECURSIVE RStrip(_)
RStrip(str) ==
    IF str # <<>> /\ str[Len(str)] = " " THEN RStrip(SubSeq(str, 1, Len(str) - 1)) ELSE str
Strip(str) == LStrip(RStrip(str))

\* work_only = (focus or "").strip().lower() == "work"; a string is the
\* sequence of its characters.
WorkOnly(focus) ==
    Lower(Strip(IF IsNone(focus) THEN <<>> ELSE Val(focus))) = <<"w", "o", "r", "k">>

IncludeMath_Always(focus) == TRUE

\* include_math = not work_only
IncludeMath(focus) == ~WorkOnly(focus)

\* `if topic`: a topic that is neither None nor the empty string.
Truthy(topic) == ~IsNone(topic) /\ Val(topic) # ""

\* SQL `next_review_at <= now()`: not true of a NULL.
SqlDue(next_review_at, t) == ~IsNone(next_review_at) /\ Val(next_review_at) <= t

FirstByDueThenEase_EaseFirst(tbl, ids) ==
    {i \in ids : \A j \in ids :
        \/ tbl[i].ease_factor < tbl[j].ease_factor
        \/ /\ tbl[i].ease_factor = tbl[j].ease_factor
           /\ Val(tbl[i].next_review_at) <= Val(tbl[j].next_review_at)}

\* ORDER BY next_review_at ASC, ease_factor ASC LIMIT 1 over the rows `ids` of a
\* table `tbl` (id -> row): the rows no other row precedes; a tie on both keys
\* leaves the choice to the database.
FirstByDueThenEase(tbl, ids) ==
    {i \in ids : \A j \in ids :
        \/ Val(tbl[i].next_review_at) < Val(tbl[j].next_review_at)
        \/ /\ Val(tbl[i].next_review_at) = Val(tbl[j].next_review_at)
           /\ tbl[i].ease_factor <= tbl[j].ease_factor}

\* The WHERE clause of the due query on questions, one per branch of
\* `if topic and work_only / elif topic / else`.
RegularDueScope(topic, work_only) ==
    IF Truthy(topic) /\ work_only
    THEN {i \in DOMAIN questions : /\ questions[i].topic = Val(topic)
                                   /\ "work" \in questions[i].tags
                                   /\ SqlDue(questions[i].next_review_at, now)}
    ELSE IF Truthy(topic)
    THEN {i \in DOMAIN questions : /\ questions[i].topic = Val(topic)
                                   /\ SqlDue(questions[i].next_review_at, now)}
    ELSE {i \in DOMAIN questions : SqlDue(questions[i].next_review_at, now)}

\* regular_row: the rows the due query can return.
RegularDueRows(topic, work_only) ==
    FirstByDueThenEase(questions, RegularDueScope(topic, work_only))

RegularRandomScope_TopicOnly(topic, work_only) ==
    IF Truthy(topic)
    THEN {i \in DOMAIN questions : questions[i].topic = Val(topic)}
    ELSE DOMAIN questions

\* The WHERE clause of the ORDER BY random() LIMIT 1 query on questions, one
\* per branch of `if topic and work_only / elif topic / elif work_only / else`.
RegularRandomScope(topic, work_only) ==
    IF Truthy(topic) /\ work_only
    THEN {i \in DOMAIN questions : /\ questions[i].topic = Val(topic)
                                   /\ "work" \in questions[i].tags}
    ELSE IF Truthy(topic)
    THEN {i \in DOMAIN questions : questions[i].topic = Val(topic)}
    ELSE IF work_only
    THEN {i \in DOMAIN questions : "work" \in questions[i].tags}
    ELSE DOMAIN questions

\* template_ids: the templates of the topic, or all; [] without include_math.
LearnTemplateIds(topic, include_math) ==
    IF ~include_math THEN {}
    ELSE IF Truthy(topic) THEN get_templates_by_topic(Val(topic))
    ELSE TemplateIds

\* The progress rows of the templates `ids`, as a table template -> row.
ProgressRows(ids) == {t \in ids : ~IsNone(progress[t])}
ProgressTable == [t \in ProgressRows(TemplateIds) |-> Val(progress[t])]

\* math_row: the rows the due query on math_template_progress can return.
MathDueRows(ids) ==
    FirstByDueThenEase(ProgressTable,
        {t \in ProgressRows(ids) : SqlDue(Val(progress[t]).next_review_at, now)})

\* untried = [t for t in template_ids if t not in tried_set]
Untried(ids) == ids \ ProgressRows(ids)

\* The template candidates of the due / untried step of next_question.
LearnMathCandidates(topic, include_math) ==
    LET ids == LearnTemplateIds(topic, include_math)
    IN  IF MathDueRows(ids) # {} THEN MathDueRows(ids) ELSE Untried(ids)

AsOptions(S) == IF S = {} THEN {None} ELSE {Some(x) : x \in S}

\* ------------------------------------------- next_question, as an action

\* INSERT INTO math_questions (template_type, topic, params, correct_answer,
\* display_text): the row keeps what the handlers read back.  The answer is
\* what the scipy function computes from the drawn parameters: an input.
NewMathQuestion(type_id, correct_answer) ==
    [template_type |-> type_id, topic |-> MATH_TEMPLATES[type_id].topic,
     correct_answer |-> correct_answer]

\* The generating handlers answering with the whole inserted row.
GeneratedQuestionBody_WholeRow(route, id, row) == [id |-> id] @@ row

\* What _generate_math_question (route "learn") and next_math_question (route
\* "math") return for the row just inserted: the keys of the dict, or the
\* fields of MathQuestion; of these the model's rows hold the type and the topic.
GeneratedQuestionBody(route, id, row) ==
    IF route = "learn"
    THEN [id |-> id, question_type |-> "math", template_type |-> row.template_type,
          topic |-> row.topic]
    ELSE [id |-> id, template_type |-> row.template_type, topic |-> row.topic]

\* What _get_regular_question returns: the row, with the type indicator.
RegularQuestionBody(id, row) == [id |-> id, question_type |-> "regular"] @@ row

FinalPick_RegularFirst(candidates) ==
    IF \E c \in candidates : c[1] = "regular"
    THEN {c \in candidates : c[1] = "regular"} ELSE candidates

\* random.choice(candidates): every candidate of the list can be the pick.
FinalPick(candidates) == candidates

\* The response of a selector, with the handler's own choices beside it:
\* the due / untried candidate of each pool and the random draw of each pool.
SelectorResponse(route, topic, focus, regular_row, math_cand, random_regular, random_math, status, qtype, id, template) ==
    [pc |-> "done", route |-> route, topic |-> topic, focus |-> focus,
     regular_row |-> regular_row, math_cand |-> math_cand,
     random_regular |-> random_regular, random_math |-> random_math,
     fallback |-> IsNone(regular_row) /\ IsNone(math_cand),
     status |-> status, question_type |-> qtype, id |-> id, template |-> template]

\* next_question(topic, focus).  llm_ok: whether the text generator call of
\* _get_regular_question / _generate_math_question returns (it raises otherwise,
\* which ends the request with a server error before any INSERT).
NextQuestion(topic, focus, llm_ok, answer) ==
    LET work_only    == WorkOnly(focus)
        include_math == IncludeMath(focus)
        template_ids == LearnTemplateIds(topic, include_math)
    IN  \E regular_row \in AsOptions(RegularDueRows(topic, work_only)),
           math_cand \in AsOptions(LearnMathCandidates(topic, include_math)) :
        LET fallback == IsNone(regular_row) /\ IsNone(math_cand)
        IN  \E random_regular \in
                 (IF fallback THEN AsOptions(RegularRandomScope(topic, work_only)) ELSE {None}),
               random_math \in (IF fallback THEN AsOptions(template_ids) ELSE {None}) :
            LET reg  == IF fallback THEN random_regular ELSE regular_row
                math == IF fallback THEN random_math ELSE math_cand
                candidates ==
                    (IF IsNone(reg) THEN {} ELSE {<<"regular", Val(reg)>>})
                    \cup (IF IsNone(math) THEN {} ELSE {<<"math", Val(math)>>})
                Response(status, qtype, id, template) ==
                    SelectorResponse("learn", topic, focus, regular_row, math_cand,
                                     random_regular, random_math, status, qtype, id, template)
            IN  IF candidates = {}
                THEN /\ sel' = Response(404, "none", None, None)
                     /\ UNCHANGED mathq
                ELSE \E c \in FinalPick(candidates) :
                     IF ~llm_ok
                     THEN /\ sel' = Response(500, c[1], None, None)
                          /\ UNCHANGED mathq
                     ELSE IF c[1] = "regular"
                     THEN /\ sel' = Response(200, "regular", Some(c[2]), None)
                                    @@ [body |-> RegularQuestionBody(c[2], questions[c[2]])]
                          /\ UNCHANGED mathq
                     ELSE /\ mathq' = Append(mathq, NewMathQuestion(c[2], answer))
                          /\ sel' = Response(200, "math", Some(Len(mathq) + 1), Some(c[2]))
                                    @@ [body |-> GeneratedQuestionBody("learn", Len(mathq) + 1,
                                                     NewMathQuestion(c[2], answer))]

\* next_math_question(topic, template_type) of routers/math.py.  A named
\* template is looked up; otherwise the due template, else untried[0], else
\* get_random_template(topic), whose random.choice raises on an empty list.
NextMathQuestion(topic, template_type, llm_ok, answer) ==
    LET template_ids == IF Truthy(topic) THEN get_templates_by_topic(Val(topic))
                        ELSE TemplateIds
        due          == MathDueRows(template_ids)
        untried      == Untried(template_ids)
        Response(math_cand, random_math, status, id, template) ==
            SelectorResponse("math", topic, None, None, math_cand, None, random_math,
                             status, "math", id, template)
        Generate(math_cand, random_math, t) ==
            IF ~llm_ok
            THEN /\ sel' = Response(math_cand, random_math, 500, None, None)
                 /\ UNCHANGED mathq
            ELSE /\ mathq' = Append(mathq, NewMathQuestion(t, answer))
                 /\ sel' = Response(math_cand, random_math, 200,
                                    Some(Len(mathq) + 1), Some(t))
                           @@ [body |-> GeneratedQuestionBody("math", Len(mathq) + 1,
                                            NewMathQuestion(t, answer))]
    IN  IF Truthy(template_type)
        THEN IF Val(template_type) \in TemplateIds
             THEN Generate(None, None, Val(template_type))
             ELSE /\ sel' = Response(None, None, 404, None, None)
                  /\ UNCHANGED mathq
        ELSE IF due # {}
        THEN \E t \in due : Generate(Some(t), None, t)
        ELSE IF untried # {}
        THEN Generate(Some(FirstInOrder(untried)), None, FirstInOrder(untried))
        ELSE IF template_ids # {}
        THEN \E t \in template_ids : Generate(None, Some(t), t)
        ELSE /\ sel' = Response(None, None, 500, None, None)
             /\ UNCHANGED mathq

\* ------------------------------ the submit handlers, one await at a time

IdleFrame == [pc |-> "idle"]

\* The frame of a handler that has returned or raised.
Done(frame, status) == [frame EXCEPT !.pc = "done", !.status = status]

\* UnifiedReviewResponse(...) of _submit_regular_answer.
RegularReviewBody(review_id, frame) ==
    [id |-> review_id, question_type |-> "regular", score |-> frame.fb]

\* UnifiedReviewResponse(...) of _submit_math_answer (route "learn") and
\* MathReview(...) of submit_math_answer (route "math"); row is the question
\* fetched at the start of the handler.
MathReviewBody(review_id, frame, row) ==
    IF frame.route = "learn"
    THEN [id |-> review_id, question_type |-> "math", user_answer |-> Val(frame.answer),
          is_correct |-> frame.is_correct, correct_answer |-> row.correct_answer]
    ELSE [id |-> review_id, math_question_id |-> frame.id, user_answer |-> Val(frame.answer),
          is_correct |-> frame.is_correct, correct_answer |-> row.correct_answer]

\* _submit_regular_answer, to the end of the SELECT: 404 when the row is
\* missing, else the fetched row is kept.
SubmitRegularFetch(p, id) ==
    /\ procs[p].pc = "idle"
    /\ LET frame == [pc |-> "r_feedback", handler |-> "regular", route |-> "learn",
                     id |-> id, answer |-> None, snap |-> None, fb |-> None,
                     is_correct |-> FALSE, status |-> 0,
                     llm_failed |-> FALSE, wrote |-> FALSE, response |-> None]
       IN  procs' = [procs EXCEPT ![p] =
                        IF id \in DOMAIN questions
                        THEN [frame EXCEPT !.snap = Some(questions[id])]
                        ELSE Done(frame, 404)]
    /\ UNCHANGED <<calc, card, gen, now, questions, progress, mathq, reviews, mreviews, sel, llm, db>>

\* await get_feedback(...): the parsed score, or the exception the client
\* raises, which nothing in the handler catches.
RegularFeedback(p, llm_ok, fbscore) ==
    /\ procs[p].pc = "r_feedback"
    /\ procs' = [procs EXCEPT ![p] =
                    IF llm_ok THEN [@ EXCEPT !.pc = "r_update", !.fb = fbscore]
                    ELSE Done([@ EXCEPT !.llm_failed = TRUE], 500)]
    /\ UNCHANGED <<calc, card, gen, now, questions, progress, mathq, reviews, mreviews, sel, llm, db>>

\* calculate_next_review on the row fetched earlier, and the UPDATE.
RegularUpdate(p) ==
    /\ procs[p].pc = "r_update"
    /\ LET id == procs[p].id
           sr == SrForQuestion(Val(procs[p].snap), procs[p].fb, now)
       IN  questions' = [questions EXCEPT ![id] = UpdateQuestion(@, sr)]
    /\ procs' = [procs EXCEPT ![p] = [@ EXCEPT !.pc = "r_insert", !.wrote = TRUE]]
    /\ UNCHANGED <<calc, card, gen, now, progress, mathq, reviews, mreviews, sel, llm, db>>

\* INSERT INTO reviews, and the response.
RegularInsert(p) ==
    /\ procs[p].pc = "r_insert"
    /\ reviews' = Append(reviews, [question_id |-> procs[p].id, score |-> procs[p].fb])
    /\ procs' = [procs EXCEPT ![p] =
                    Done([@ EXCEPT !.response = Some(RegularReviewBody(Len(reviews) + 1, procs[p]))],
                         200)]
    /\ UNCHANGED <<calc, card, gen, now, questions, progress, mathq, mreviews, sel, llm, db>>

\* The math submit handlers looking the question up before parsing the answer.
SubmitMathFetch_FetchFirst(p, route, id, answer) ==
    /\ procs[p].pc = "idle"
    /\ LET frame == [pc |-> "m_feedback", handler |-> "math", route |-> route,
                     id |-> id, answer |-> answer, snap |-> None, fb |-> None,
                     is_correct |-> FALSE, status |-> 0,
                     llm_failed |-> FALSE, wrote |-> FALSE, response |-> None]
       IN  procs' = [procs EXCEPT ![p] =
                IF id \notin DOMAIN mathq THEN Done(frame, 404)
                ELSE IF IsNone(answer) THEN Done(frame, IF route = "learn" THEN 400 ELSE 422)
                ELSE [frame EXCEPT !.is_correct =
                         grade_math_answer(Val(answer), mathq[id].correct_answer,
                                           MATH_TEMPLATES[mathq[id].template_type].tolerance)]]
    /\ UNCHANGED <<calc, card, gen, now, questions, progress, mathq, reviews, mreviews, sel, llm, db>>

\* _submit_math_answer (route "learn") and submit_math_answer (route "math"),
\* to the end of grade_math_answer.  answer is None for a string that float()
\* rejects: learn.py answers 400, the float field of SubmitMathAnswer 422.
SubmitMathFetch(p, route, id, answer) ==
    /\ procs[p].pc = "idle"
    /\ LET frame == [pc |-> "m_feedback", handler |-> "math", route |-> route,
                     id |-> id, answer |-> answer, snap |-> None, fb |-> None,
                     is_correct |-> FALSE, status |-> 0,
                     llm_failed |-> FALSE, wrote |-> FALSE, response |-> None]
       IN  procs' = [procs EXCEPT ![p] =
                IF IsNone(answer) THEN Done(frame, IF route = "learn" THEN 400 ELSE 422)
                ELSE IF id \notin DOMAIN mathq THEN Done(frame, 404)
                ELSE [frame EXCEPT !.is_correct =
                         grade_math_answer(Val(answer), mathq[id].correct_answer,
                                           MATH_TEMPLATES[mathq[id].template_type].tolerance)]]
    /\ UNCHANGED <<calc, card, gen, now, questions, progress, mathq, reviews, mreviews, sel, llm, db>>

\* await get_math_feedback(...): the text, or the exception, uncaught.
MathFeedback(p, llm_ok) ==
    /\ procs[p].pc = "m_feedback"
    /\ procs' = [procs EXCEPT ![p] =
                    IF llm_ok THEN [@ EXCEPT !.pc = "m_progress"]
                    ELSE Done([@ EXCEPT !.llm_failed = TRUE], 500)]
    /\ UNCHANGED <<calc, card, gen, now, questions, progress, mathq, reviews, mreviews, sel, llm, db>>

\* SELECT * FROM math_template_progress WHERE template_type = $1
MathFetchProgress(p) ==
    /\ procs[p].pc = "m_progress"
    /\ procs' = [procs EXCEPT ![p] =
                    [@ EXCEPT !.pc = "m_write",
                              !.snap = Some(progress[mathq[procs[p].id].template_type])]]
    /\ UNCHANGED <<calc, card, gen, now, questions, progress, mathq, reviews, mreviews, sel, llm, db>>

\* `if progress:` UPDATE, else INSERT.  An INSERT for a template that has got a
\* row since the SELECT violates the key of the table and raises.
MathWrite(p) ==
    /\ procs[p].pc = "m_write"
    /\ LET t    == mathq[procs[p].id].template_type
           snap == Val(procs[p].snap)
           ok   == procs[p].is_correct
           sr   == SrForTemplate(snap, ok, now)
       IN  IF ~IsNone(snap)
           THEN /\ progress' = [progress EXCEPT ![t] = Some(UpdateProgress(Val(@), sr, ok))]
                /\ procs' = [procs EXCEPT ![p] = [@ EXCEPT !.pc = "m_insert", !.wrote = TRUE]]
           ELSE IF IsNone(progress[t])
           THEN /\ progress' = [progress EXCEPT ![t] = Some(InsertProgress(sr, ok))]
                /\ procs' = [procs EXCEPT ![p] = [@ EXCEPT !.pc = "m_insert", !.wrote = TRUE]]
           ELSE /\ procs' = [procs EXCEPT ![p] = Done(@, 500)]
                /\ UNCHANGED progress
    /\ UNCHANGED <<calc, card, gen, now, questions, mathq, reviews, mreviews, sel, llm, db>>

\* INSERT INTO math_reviews, and the response.
MathInsert(p) ==
    /\ procs[p].pc = "m_insert"
    /\ mreviews' = Append(mreviews, [math_question_id |-> procs[p].id,
                                     user_answer |-> Val(procs[p].answer),
                                     is_correct |-> procs[p].is_correct])
    /\ procs' = [procs EXCEPT ![p] =
                    Done([@ EXCEPT !.response =
                             Some(MathReviewBody(Len(mreviews) + 1, procs[p], mathq[procs[p].id]))],
                         200)]
    /\ UNCHANGED <<calc, card, gen, now, questions, progress, mathq, reviews, sel, llm, db>>

\* get_math_history(limit): the reviews joined with their questions, newest
\* first, at most limit of them.
get_math_history(limit) ==
    [k \in 1..Min(limit, Len(mreviews)) |->
        LET r == mreviews[Len(mreviews) + 1 - k]
            q == mathq[r.math_question_id]
        IN  [id |-> Len(mreviews) + 1 - k, template_type |-> q.template_type,
             topic |-> q.topic, user_answer |-> r.user_answer,
             correct_answer |-> q.correct_answer, is_correct |-> r.is_correct]]

\* GET /math/history
GetMathHistory(limit) ==
    /\ sel' = [pc |-> "done", route |-> "history", status |-> 200,
               body |-> get_math_history(limit)]
    /\ UNCHANGED <<calc, card, gen, now, questions, progress, mathq, reviews, mreviews, llm, db>>

\* ------------------------------------------------ values of idle variables

IdleCalc == [pc |-> "idle"]
IdleCard == [kind |-> "idle"]
IdleGen  == [pc |-> "idle"]
IdleSel  == [pc |-> "idle"]
IdleLLM  == [pc |-> "idle"]
IdleDB   == [pc |-> "idle"]

\* ------------------------------------- SpecCalc: one call of the calculator

\* The eases offered: a grid, and the ease a first review scored 3 leaves (2.36).
EaseInputs == {e \in EaseFloor..MaxEase : (e - EaseFloor) % EaseStep = 0}
              \cup {NewEase(3, DefaultEase)}
ScoreInputs == (1 - ScoreSlack)..(5 + ScoreSlack)
IntervalInputs == 0..CapDays

InitCalc ==
    /\ calc \in [pc : {"call"}, fn : {"next"}, score : ScoreInputs, is_correct : {FALSE},
                 ease : EaseInputs, interval : IntervalInputs,
                 count : 0..MaxCount, t : 0..MaxNow, res : {None}]
          \cup
                [pc : {"call"}, fn : {"math"}, score : {0}, is_correct : BOOLEAN,
                 ease : EaseInputs, interval : IntervalInputs,
                 count : 0..MaxCount, t : 0..MaxNow, res : {None}]
    /\ card = IdleCard
    /\ gen = IdleGen
    /\ now = 0
    /\ questions = <<>>
    /\ progress = <<>>
    /\ mathq = <<>>
    /\ reviews = <<>>
    /\ mreviews = <<>>
    /\ procs = <<>>
    /\ sel = IdleSel
    /\ llm = IdleLLM
    /\ db = IdleDB

CallNextReview ==
    /\ calc.pc = "call" /\ calc.fn = "next"
    /\ calc' = [calc EXCEPT !.pc = "done",
                  !.res = Some(calculate_next_review(calc.score, calc.ease, calc.interval,
                                                     calc.count, calc.t))]
    /\ UNCHANGED <<card, gen, now, questions, progress, mathq, reviews, mreviews, procs, sel, llm, db>>

CallMathReview ==
    /\ calc.pc = "call" /\ calc.fn = "math"
    /\ calc' = [calc EXCEPT !.pc = "done",
                  !.res = Some(calculate_math_review(calc.is_correct, calc.ease, calc.interval,
                                                     calc.count, calc.t))]
    /\ UNCHANGED <<card, gen, now, questions, progress, mathq, reviews, mreviews, procs, sel, llm, db>>

NextCalc == CallNextReview \/ CallMathReview

SpecCalc == InitCalc /\ [][NextCalc]_vars

\* ------------------------ SpecSR: one record through a sequence of updates

\* The score the feedback parser yields: None, or the first digit it finds.
FeedbackScores == {None} \cup {Some(d) : d \in 0..9}

InitSR ==
    /\ card \in [kind : {"regular"},
                 q : {[NewQuestion("t", {}) EXCEPT !.ease_factor = e] : e \in EaseInputs}]
          \cup  [kind : {"math"}, p : {None}]
    /\ calc = IdleCalc
    /\ gen = IdleGen
    /\ now = 0
    /\ questions = <<>>
    /\ progress = <<>>
    /\ mathq = <<>>
    /\ reviews = <<>>
    /\ mreviews = <<>>
    /\ procs = <<>>
    /\ sel = IdleSel
    /\ llm = IdleLLM
    /\ db = IdleDB

\* An update of a fixed item: the calculator on the stored row, written back.
ApplyReview(fbscore) ==
    /\ card.kind = "regular"
    /\ card.q.review_count < MaxUpdates
    /\ LET sr == SrForQuestion(card.q, fbscore, now)
       IN  /\ sr.ease_factor <= MaxEase
           /\ card' = [card EXCEPT !.q = UpdateQuestion(card.q, sr)]
    /\ UNCHANGED <<calc, gen, now, questions, progress, mathq, reviews, mreviews, procs, sel, llm, db>>

\* An update of a template: the calculator on the stored progress, upserted.
ApplyMathReview(is_correct) ==
    /\ card.kind = "math"
    /\ (IF IsNone(card.p) THEN 0 ELSE Val(card.p).total_attempts) < MaxUpdates
    /\ LET sr == SrForTemplate(card.p, is_correct, now)
       IN  card' = [card EXCEPT !.p =
                       IF IsNone(card.p) THEN Some(InsertProgress(sr, is_correct))
                       ELSE Some(UpdateProgress(Val(card.p), sr, is_correct))]
    /\ UNCHANGED <<calc, gen, now, questions, progress, mathq, reviews, mreviews, procs, sel, llm, db>>

NextSR ==
    \/ \E s \in FeedbackScores : ApplyReview(s)
    \/ \E ok \in BOOLEAN : ApplyMathReview(ok)

SpecSR == InitSR /\ [][NextSR]_vars

\* ----------------- SpecRun: a run of successful reviews on one fixed item

\* The lowest and the highest score of a successful answer: the one lowers
\* the ease, the other raises it.
SuccessScores == {Some(3), Some(5)}

\* Where the runs start: the lowest ease and the default one; an item that
\* failed its last review (interval 0) and one after a first success (1).
RunEases == {EaseFloor, DefaultEase}
RunIntervals == 0..1

\* A record that has been reviewed before.
InitRun ==
    /\ card \in [kind : {"regular"}, kept : {0},
                 q : {[NewQuestion("t", {}) EXCEPT !.ease_factor = e, !.interval_days = i,
                                                  !.review_count = 1,
                                                  !.next_review_at = Some(0)] :
                         e \in RunEases, i \in RunIntervals}]
    /\ calc = IdleCalc
    /\ gen = IdleGen
    /\ now = 0
    /\ questions = <<>>
    /\ progress = <<>>
    /\ mathq = <<>>
    /\ reviews = <<>>
    /\ mreviews = <<>>
    /\ procs = <<>>
    /\ sel = IdleSel
    /\ llm = IdleLLM
    /\ db = IdleDB

\* One more successful review: the calculator on the stored row, written
\* back.  A record at the cap is reviewed MaxKept more times.
Succeed(fbscore) ==
    /\ card.kind = "regular"
    /\ card.q.interval_days < CapDays \/ card.kept < MaxKept
    /\ LET sr == SrForQuestion(card.q, fbscore, now)
       IN  /\ sr.ease_factor <= MaxEase
           /\ card' = [card EXCEPT !.q = UpdateQuestion(card.q, sr),
                                   !.kept = IF card.q.interval_days < CapDays THEN @ ELSE @ + 1]
    /\ UNCHANGED <<calc, gen, now, questions, progress, mathq, reviews, mreviews, procs, sel, llm, db>>

NextRun == \E s \in SuccessScores : Succeed(s)

\* The run goes on: while a success can be applied, one is.
SpecRun == InitRun /\ [][NextRun]_vars /\ WF_vars(NextRun)

\* --------------------------------- SpecGen: one call of generate_params

InitGen ==
    /\ gen \in [pc : {"call"}, template : TemplateIds, params : {<<>>}]
    /\ calc = IdleCalc
    /\ card = IdleCard
    /\ now = 0
    /\ questions = <<>>
    /\ progress = <<>>
    /\ mathq = <<>>
    /\ reviews = <<>>
    /\ mreviews = <<>>
    /\ procs = <<>>
    /\ sel = IdleSel
    /\ llm = IdleLLM
    /\ db = IdleDB

CallGenerateParams ==
    /\ gen.pc = "call"
    /\ \E draws \in [DOMAIN MATH_TEMPLATES[gen.template].param_ranges -> 0..UGrid] :
          gen' = [gen EXCEPT !.pc = "done",
                             !.params = generate_params(gen.template, draws)]
    /\ UNCHANGED <<calc, card, now, questions, progress, mathq, reviews, mreviews, procs, sel, llm, db>>

NextGen == CallGenerateParams

SpecGen == InitGen /\ [][NextGen]_vars

\* ----------------------------- SpecGrade: one call of grade_math_answer

\* Correct answers on both sides of the 0.0001 threshold, of both signs, and
\* of the sizes the templates produce (probabilities, z-scores, money).
GradeCorrects == {-10000000, -50000, -100, -10, -9, 0, 9, 10, 100, 50000, 10000000}

\* user_answer - correct_answer: around each tolerance and each relative bound.
GradeDiffMagnitudes == {0, 1, 9, 10, 99, 100, 999, 1000, 1001, 9999, 10000, 10001, 99999, 100000, 100001}
GradeDiffs == GradeDiffMagnitudes \cup {-d : d \in GradeDiffMagnitudes}

\* The tolerances the registry declares.
GradeTolerances == {MATH_TEMPLATES[t].tolerance : t \in TemplateIds}

InitGrade ==
    /\ calc \in [pc : {"call"}, fn : {"grade"}, correct : GradeCorrects, diff : GradeDiffs,
                 tolerance : GradeTolerances, raised : {FALSE}, is_correct : {FALSE}]
    /\ card = IdleCard
    /\ gen = IdleGen
    /\ now = 0
    /\ questions = <<>>
    /\ progress = <<>>
    /\ mathq = <<>>
    /\ reviews = <<>>
    /\ mreviews = <<>>
    /\ procs = <<>>
    /\ sel = IdleSel
    /\ llm = IdleLLM
    /\ db = IdleDB

CallGrade ==
    /\ calc.pc = "call" /\ calc.fn = "grade"
    /\ LET user_answer == calc.correct + calc.diff
       IN  calc' = [calc EXCEPT
                      !.pc = "done",
                      !.raised = GradeRaises(user_answer, calc.correct, calc.tolerance),
                      !.is_correct = IF GradeRaises(user_answer, calc.correct, calc.tolerance)
                                     THEN FALSE
                                     ELSE grade_math_answer(user_answer, calc.correct,
                                                            calc.tolerance)]
    /\ UNCHANGED <<card, gen, now, questions, progress, mathq, reviews, mreviews, procs, sel, llm, db>>

NextGrade == CallGrade

SpecGrade == InitGrade /\ [][NextGrade]_vars

\* ----------------------------- SpecSelect: one call of GET /learn/next

TopicInputs == {None, Some(""), Some("finance"), Some("history")}
FocusInputs == {None, Some(<<" ", "W", "o", "r", "k", " ">>), Some(<<"h", "o", "m", "e">>)}
\* correct_answer values, in hundred-thousandths (0.5 is 50000).
AnswerInputs == {0, 50000}

\* The answer of every question generated in the selector specification.
SelectAnswer == CHOOSE a \in AnswerInputs : a # 0

\* The clock of the selector specifications: three days after the epoch.
SelectNow == 3 * DayMinutes

\* The rows a question can hold: never reviewed, or reviewed once with the
\* score and at the time given, so that at SelectNow it is (1) due since a day,
\* (2) due since a day with a lower ease, (3) due this minute with the lower
\* ease, (4) not due.
QuestionSchedules ==
    <<None,
      Some(<<4, SelectNow - 2 * DayMinutes>>),
      Some(<<2, SelectNow - DayMinutes - TenMinutes>>),
      Some(<<2, SelectNow - TenMinutes>>),
      Some(<<4, SelectNow>>)>>
QuestionTopics == <<"finance", "history">>
QuestionTags == <<{}, {"work"}>>

ReviewedOnce(row, sched) ==
    IF IsNone(sched) THEN row
    ELSE UpdateQuestion(row, SrForQuestion(row, Some(Val(sched)[1]), Val(sched)[2]))

\* The k-th row, k in 0 .. NumQuestionRows - 1.
QuestionRowAt(k) ==
    ReviewedOnce(NewQuestion(QuestionTopics[(k % 2) + 1], QuestionTags[((k \div 2) % 2) + 1]),
                 QuestionSchedules[(k \div 4) + 1])
NumQuestionRows == 4 * Len(QuestionSchedules)

\* The questions tables: up to MaxQuestions rows; the ids are opaque, so the
\* tables are taken up to a renaming of the ids (rows in ascending order).
QuestionTables ==
    UNION {{[i \in 1..n |-> QuestionRowAt(f[i])] :
              f \in {g \in [1..n -> 0..(NumQuestionRows - 1)] :
                        \A i \in 1..(n - 1) : g[i] <= g[i + 1]}} :
           n \in 0..MaxQuestions}

\* The progress row of a template attempted once, correctly, at time t.
AttemptedOnce(t) == Some(InsertProgress(SrForTemplate(None, TRUE, t), TRUE))

\* The progress tables: one finance template untried, due or not due; the
\* other templates all untried or all tried and not due.
ProgressStates == {None, AttemptedOnce(SelectNow - 2 * DayMinutes), AttemptedOnce(SelectNow)}
\* The progress row of a template attempted once, wrongly, at time t.
FailedOnce(t) == Some(InsertProgress(SrForTemplate(None, FALSE, t), FALSE))

\* A second finance template that is due since the same minute as the first,
\* with a lower ease.
TiedProgressTables ==
    {[t \in TemplateIds |->
         IF t = "present_value" THEN AttemptedOnce(SelectNow - 2 * DayMinutes)
         ELSE IF t = "future_value" THEN FailedOnce(SelectNow - DayMinutes - TenMinutes)
         ELSE base] :
     base \in {None, AttemptedOnce(SelectNow)}}

ProgressTables ==
    {[t \in TemplateIds |-> IF t = "present_value" THEN b ELSE base] :
     b \in ProgressStates, base \in {None, AttemptedOnce(SelectNow)}}
    \cup TiedProgressTables

\* The template_type parameter of GET /math/next: absent, a template of the
\* registry, a name that is none.
TemplateTypeInputs == {None, Some("normal_cdf"), Some("no_such_template")}

InitSelect ==
    /\ questions \in QuestionTables
    /\ progress \in ProgressTables
    /\ now = SelectNow
    /\ mathq = <<>>
    /\ reviews = <<>>
    /\ mreviews = <<>>
    /\ procs = <<>>
    /\ sel = IdleSel
    /\ calc = IdleCalc
    /\ card = IdleCard
    /\ gen = IdleGen
    /\ llm = IdleLLM
    /\ db = IdleDB

\* One GET /learn/next with the given parameters.
LearnNextWith(topic, focus, llm_ok) ==
    /\ sel.pc = "idle"
    /\ NextQuestion(topic, focus, llm_ok, SelectAnswer)
    /\ UNCHANGED <<calc, card, gen, now, questions, progress, reviews, mreviews, procs, llm, db>>

\* The failure of the text generator is left to the interleaving
\* specification, where it is one outcome of LearnNext.
LearnNextOnce ==
    \E topic \in TopicInputs, focus \in FocusInputs :
        LearnNextWith(topic, focus, TRUE)

\* One GET /math/next with the given parameters.
MathNextWith(topic, template_type, llm_ok) ==
    /\ sel.pc = "idle"
    /\ NextMathQuestion(topic, template_type, llm_ok, SelectAnswer)
    /\ UNCHANGED <<calc, card, gen, now, questions, progress, reviews, mreviews, procs, llm, db>>

MathNextOnce ==
    \E topic \in TopicInputs, template_type \in TemplateTypeInputs, llm_ok \in BOOLEAN :
        MathNextWith(topic, template_type, llm_ok)

NextSelect == LearnNextOnce \/ MathNextOnce

SpecSelect == InitSelect /\ [][NextSelect]_vars

\* ------------- SpecPick: one GET /learn/next over questions of one topic

\* The questions tables of the pick specification: up to MaxQuestions rows of
\* the topic finance without tags, in every schedule.
PickQuestionTables ==
    {tbl \in QuestionTables :
        \A i \in DOMAIN tbl : tbl[i].topic = "finance" /\ tbl[i].tags = {}}

InitPick ==
    /\ questions \in PickQuestionTables
    /\ progress \in ProgressTables
    /\ now = SelectNow
    /\ mathq = <<>>
    /\ reviews = <<>>
    /\ mreviews = <<>>
    /\ procs = <<>>
    /\ sel = IdleSel
    /\ calc = IdleCalc
    /\ card = IdleCard
    /\ gen = IdleGen
    /\ llm = IdleLLM
    /\ db = IdleDB

NextPick == LearnNextOnce

SpecPick == InitPick /\ [][NextPick]_vars

\* ------------------- Spec: the handlers of concurrent requests, interleaved

Procs == 1..MaxProcs

\* The questions table the specification starts from: one question, never
\* reviewed.
StartQuestions == <<NewQuestion("finance", {"work"})>>

\* The ids a request can name: the rows of the table and one that is in no table.
QuestionIdInputs == (DOMAIN questions) \cup {0}
MathQuestionIdInputs == (DOMAIN mathq) \cup {0}
\* The answers of a math submission: a string that is no number, or a number.
MathAnswerInputs == {None, Some(50000), Some(90000)}
\* The scores the feedback generator yields in this specification.
SubmitScores == {None, Some(2), Some(5)}

Init ==
    /\ questions = StartQuestions
    /\ progress = [t \in TemplateIds |-> None]
    /\ now = SelectNow
    /\ mathq = <<>>
    /\ reviews = <<>>
    /\ mreviews = <<>>
    /\ procs = [p \in Procs |-> IdleFrame]
    /\ sel = IdleSel
    /\ calc = IdleCalc
    /\ card = IdleCard
    /\ gen = IdleGen
    /\ llm = IdleLLM
    /\ db = IdleDB

\* GET /learn/next for the finance topic, while the model has room for the
\* math question it may generate.
LearnNext ==
    /\ Len(mathq) < MaxMathQ
    /\ \E llm_ok \in BOOLEAN, answer \in AnswerInputs :
          NextQuestion(Some("finance"), None, llm_ok, answer)
    /\ UNCHANGED <<calc, card, gen, now, questions, progress, reviews, mreviews, procs, llm, db>>

Next ==
    \/ LearnNext
    \/ \E p \in Procs :
        \/ \E id \in QuestionIdInputs : SubmitRegularFetch(p, id)
        \/ \E llm_ok \in BOOLEAN, s \in SubmitScores : RegularFeedback(p, llm_ok, s)
        \/ RegularUpdate(p)
        \/ RegularInsert(p)
        \/ \E route \in {"learn", "math"}, id \in MathQuestionIdInputs,
              a \in MathAnswerInputs : SubmitMathFetch(p, route, id, a)
        \/ \E llm_ok \in BOOLEAN : MathFeedback(p, llm_ok)
        \/ MathFetchProgress(p)
        \/ MathWrite(p)
        \/ MathInsert(p)

Spec == Init /\ [][Next]_vars

\* ------------------ SpecTags: create_question and update_question on tags

Range(seq) == {seq[i] : i \in DOMAIN seq}

\* The tag "work", a text being the sequence of its characters.
WorkTag == <<"w", "o", "r", "k">>

\* The limit of _normalize_tags.
MaxTags == 2

\* _normalize_tags(tags), from the loop on: cleaned = tag.strip().lower(), blank
\* and repeated tags skipped.
RECURSIVE NormalizeLoop(_, _)
NormalizeLoop(tags, normalized) ==
    IF tags = <<>> THEN normalized
    ELSE LET cleaned == Lower(Strip(Head(tags)))
         IN  IF cleaned = <<>> \/ cleaned \in Range(normalized)
             THEN NormalizeLoop(Tail(tags), normalized)
             ELSE NormalizeLoop(Tail(tags), Append(normalized, cleaned))

\* _normalize_tags(tags): raised is the ValueError for more than 2 tags.
normalize_tags(tags) ==
    IF IsNone(tags) \/ Val(tags) = <<>> THEN [raised |-> FALSE, value |-> <<>>]
    ELSE LET normalized == NormalizeLoop(Val(tags), <<>>)
         IN  IF Len(normalized) > MaxTags THEN [raised |-> TRUE, value |-> <<>>]
             ELSE [raised |-> FALSE, value |-> normalized]

\* list comprehension [tag for tag in resolved if tag != "work"]
RECURSIVE WithoutWork(_)
WithoutWork(tags) ==
    IF tags = <<>> THEN <<>>
    ELSE IF Head(tags) = WorkTag THEN WithoutWork(Tail(tags))
    ELSE <<Head(tags)>> \o WithoutWork(Tail(tags))

\* _resolve_tags(tags, is_work): tags and is_work are None or a value.
resolve_tags(tags, is_work) ==
    IF IsNone(tags)
    THEN IF IsNone(is_work) THEN None
         ELSE IF Val(is_work) THEN Some(<<WorkTag>>) ELSE Some(<<>>)
    ELSE IF is_work = Some(TRUE) /\ WorkTag \notin Range(Val(tags))
         THEN Some(<<WorkTag>> \o Val(tags))
    ELSE IF is_work = Some(FALSE) THEN Some(WithoutWork(Val(tags)))
    ELSE tags

\* The Question response model applied to a row: its "before" validator runs
\* _normalize_tags on the stored list, and a ValueError there fails the response.
QuestionResponseStatus(row, ok_status) ==
    IF normalize_tags(Some(row.tags)).raised THEN 500 ELSE ok_status

\* The texts a request puts in its tags list.
TagTexts == {WorkTag, <<" ", "W", "o", "r", "k">>, <<"h">>, <<"H">>, <<"m">>, <<" ">>}

RECURSIVE SeqsUpTo(_, _)
SeqsUpTo(S, n) ==
    IF n = 0 THEN {<<>>}
    ELSE LET shorter == SeqsUpTo(S, n - 1)
         IN  shorter \cup {Append(q, x) : q \in shorter, x \in S}

TagListInputs == SeqsUpTo(TagTexts, MaxTagList)

InitTags ==
    /\ questions = <<>>
    /\ sel = IdleSel
    /\ llm = IdleLLM
    /\ db = IdleDB
    /\ calc = IdleCalc
    /\ card = IdleCard
    /\ gen = IdleGen
    /\ now = 0
    /\ progress = <<>>
    /\ mathq = <<>>
    /\ reviews = <<>>
    /\ mreviews = <<>>
    /\ procs = <<>>

\* POST /questions.  QuestionCreate validates tags (422 on the ValueError);
\* the handler stores _resolve_tags(body.tags, body.is_work) or [] and answers
\* with the stored row through the Question model.
create_question(tags, is_work) ==
    /\ Len(questions) < MaxQuestions
    /\ LET validated == normalize_tags(Some(tags))
           resolved  == resolve_tags(Some(validated.value), Some(is_work))
           row       == NewQuestion("finance", Val(resolved))
       IN  IF validated.raised
           THEN /\ sel' = [pc |-> "done", route |-> "questions", status |-> 422]
                /\ UNCHANGED questions
           ELSE /\ questions' = Append(questions, row)
                /\ sel' = [pc |-> "done", route |-> "questions",
                           status |-> QuestionResponseStatus(row, 201)]
    /\ UNCHANGED <<calc, card, gen, now, progress, mathq, reviews, mreviews, procs, llm, db>>

\* PUT /questions/{id}.  QuestionUpdate validates tags unless they are None;
\* tags = COALESCE($5, tags).
update_question(id, tags, is_work) ==
    LET validated == IF IsNone(tags) THEN [raised |-> FALSE, value |-> <<>>]
                     ELSE normalize_tags(tags)
        body_tags == IF IsNone(tags) THEN None ELSE Some(validated.value)
        resolved  == resolve_tags(body_tags, is_work)
    IN  /\ IF validated.raised
           THEN /\ sel' = [pc |-> "done", route |-> "questions", status |-> 422]
                /\ UNCHANGED questions
           ELSE IF id \notin DOMAIN questions
           THEN /\ sel' = [pc |-> "done", route |-> "questions", status |-> 404]
                /\ UNCHANGED questions
           ELSE LET row == [questions[id] EXCEPT
                               !.tags = IF IsNone(resolved) THEN @ ELSE Val(resolved)]
                IN  /\ questions' = [questions EXCEPT ![id] = row]
                    /\ sel' = [pc |-> "done", route |-> "questions",
                               status |-> QuestionResponseStatus(row, 200)]
        /\ UNCHANGED <<calc, card, gen, now, progress, mathq, reviews, mreviews, procs, llm, db>>

NextTags ==
    \/ \E tags \in TagListInputs, is_work \in BOOLEAN : create_question(tags, is_work)
    \/ \E id \in QuestionIdInputs, tags \in {None} \cup {Some(t) : t \in TagListInputs},
          is_work \in {None, Some(TRUE), Some(FALSE)} : update_question(id, tags, is_work)

SpecTags == InitTags /\ [][NextTags]_vars

\* -------------------- SpecLLM: the provider setting and the cached clients

\* Settings.llm_provider as read from the environment at import: the values
\* whose model and key fields Settings declares.
ProviderInputs == {"gemini", "ollama"}

\* _provider_for_mode(mode)
provider_for_mode(mode) == IF mode = "local" THEN "ollama" ELSE "gemini"

\* _mode_for_provider(provider)
mode_for_provider(provider) == IF provider = "ollama" THEN "local" ELSE "web"

\* The model name Settings holds for a provider.
ModelOf(provider) == IF provider = "ollama" THEN "ollama_model" ELSE "gemini_model"

\* get_llm_provider() of app.config.
get_llm_provider == IF ~IsNone(llm.runtime_llm_provider) THEN Val(llm.runtime_llm_provider)
                    ELSE llm.settings_llm_provider

\* _get_client(): the cached client if there is one, else one built for
\* settings.llm_provider.
ClientProvider == IF ~IsNone(llm.client) THEN Val(llm.client) ELSE llm.settings_llm_provider

\* _get_model()
get_model == ModelOf(llm.settings_llm_provider)

InitLLM ==
    /\ llm \in [pc : {"run"}, settings_llm_provider : ProviderInputs,
                 runtime_llm_provider : {None}, client : {None}, gemini_client : {FALSE},
                 calls : {<<>>}, mode : {None}]
    /\ db = IdleDB
    /\ calc = IdleCalc
    /\ card = IdleCard
    /\ gen = IdleGen
    /\ now = 0
    /\ questions = <<>>
    /\ progress = <<>>
    /\ mathq = <<>>
    /\ reviews = <<>>
    /\ mreviews = <<>>
    /\ procs = <<>>
    /\ sel = IdleSel

\* PUT /settings/llm-mode: set_llm_provider(_provider_for_mode(body.mode)); the
\* response reports the provider and its model.
UpdateLLMMode(mode) ==
    /\ llm.pc = "run"
    /\ llm' = [llm EXCEPT !.runtime_llm_provider = Some(provider_for_mode(mode)),
                          !.mode = Some([mode |-> mode, provider |-> provider_for_mode(mode),
                                         model |-> ModelOf(provider_for_mode(mode))])]
    /\ UNCHANGED <<calc, card, gen, now, questions, progress, mathq, reviews, mreviews, procs, sel, db>>

\* GET /settings/llm-mode
GetLLMMode ==
    /\ llm.pc = "run"
    /\ llm' = [llm EXCEPT !.mode = Some([mode |-> mode_for_provider(get_llm_provider),
                                         provider |-> get_llm_provider,
                                         model |-> ModelOf(get_llm_provider)])]
    /\ UNCHANGED <<calc, card, gen, now, questions, progress, mathq, reviews, mreviews, procs, sel, db>>

\* get_feedback / rephrase_question: _get_client().chat.completions.create(
\* model=_get_model(), ...).  The log keeps which provider served the call and
\* what _runtime_llm_provider was at that moment.
GetFeedbackCall ==
    /\ llm.pc = "run"
    /\ Len(llm.calls) < MaxCalls
    /\ llm' = [llm EXCEPT
                  !.client = Some(ClientProvider),
                  !.calls = Append(@, [fn |-> "get_feedback", provider |-> ClientProvider,
                                       model |-> get_model,
                                       runtime |-> llm.runtime_llm_provider])]
    /\ UNCHANGED <<calc, card, gen, now, questions, progress, mathq, reviews, mreviews, procs, sel, db>>

\* get_math_feedback: _get_gemini_client().chat.completions.create(
\* model=settings.gemini_model, ...).
GetMathFeedbackCall ==
    /\ llm.pc = "run"
    /\ Len(llm.calls) < MaxCalls
    /\ llm' = [llm EXCEPT
                  !.gemini_client = TRUE,
                  !.calls = Append(@, [fn |-> "get_math_feedback", provider |-> "gemini",
                                       model |-> ModelOf("gemini"),
                                       runtime |-> llm.runtime_llm_provider])]
    /\ UNCHANGED <<calc, card, gen, now, questions, progress, mathq, reviews, mreviews, procs, sel, db>>

NextLLM ==
    \/ \E mode \in {"local", "web"} : UpdateLLMMode(mode)
    \/ GetLLMMode
    \/ GetFeedbackCall
    \/ GetMathFeedbackCall

SpecLLM == InitLLM /\ [][NextLLM]_vars

\* ------------- SpecMath: math questions served and answered one at a time

\* The answers submitted in SpecMath: a text that is no number, the correct
\* answer, and one that is off by more than the 1.0 the finance templates allow.
SerialAnswerInputs == {None, Some(SelectAnswer), Some(SelectAnswer + 200000)}

\* LIMIT values of GET /math/history: none, one, the default.
HistoryLimits == {0, 1, 20}

InitMath ==
    /\ questions = StartQuestions
    /\ progress = [t \in TemplateIds |-> None]
    /\ now = SelectNow
    /\ mathq = <<>>
    /\ reviews = <<>>
    /\ mreviews = <<>>
    /\ procs = <<IdleFrame>>
    /\ sel = IdleSel
    /\ calc = IdleCalc
    /\ card = IdleCard
    /\ gen = IdleGen
    /\ llm = IdleLLM
    /\ db = IdleDB

\* The frame of a GET handler that has answered; its response is in sel.
GetFrame == [pc |-> "done", handler |-> "get"]

\* GET /learn/next or GET /math/next for the finance topic.
ServeNext ==
    /\ procs[1].pc = "idle"
    /\ Len(mathq) < MaxMathQ
    /\ \E llm_ok \in BOOLEAN :
          \/ NextQuestion(Some("finance"), None, llm_ok, SelectAnswer)
          \/ NextMathQuestion(Some("finance"), None, llm_ok, SelectAnswer)
    /\ procs' = <<GetFrame>>
    /\ UNCHANGED <<calc, card, gen, now, questions, progress, reviews, mreviews, llm, db>>

\* GET /math/history
ServeHistory ==
    /\ procs[1].pc = "idle"
    /\ \E limit \in HistoryLimits : GetMathHistory(limit)
    /\ procs' = <<GetFrame>>

\* The response has gone out; the next request arrives a minute later.
Return ==
    /\ procs[1].pc = "done"
    /\ now < SelectNow + MaxSubmits
    /\ procs' = <<IdleFrame>>
    /\ sel' = IdleSel
    /\ now' = now + 1
    /\ UNCHANGED <<calc, card, gen, questions, progress, mathq, reviews, mreviews, llm, db>>

NextMath ==
    \/ ServeNext
    \/ ServeHistory
    \/ \E route \in {"learn", "math"}, id \in MathQuestionIdInputs, a \in SerialAnswerInputs :
          SubmitMathFetch(1, route, id, a)
    \/ \E llm_ok \in BOOLEAN : MathFeedback(1, llm_ok)
    \/ MathFetchProgress(1)
    \/ MathWrite(1)
    \/ MathInsert(1)
    \/ Return

SpecMath == InitMath /\ [][NextMath]_vars

\* ---------------- SpecPool: concurrent get_pool calls and close_pool

\* A caller of get_pool that is not inside the call.
PoolIdleFrame == [pc |-> "idle", handler |-> "get_pool"]

\* The module globals _pool and _schema_ready at import, and what has
\* happened since the start of the process or the last close_pool: pools
\* created, schema setups started, pools returned to callers.
InitPool ==
    /\ db = [pc |-> "run", pool |-> None, schema_ready |-> FALSE, next_pool |-> 1,
             created |-> 0, schema_runs |-> 0, handed |-> {}, gets |-> 0, closes |-> 0]
    /\ procs = [p \in 1..MaxProcs |-> PoolIdleFrame]
    /\ calc = IdleCalc
    /\ card = IdleCard
    /\ gen = IdleGen
    /\ now = 0
    /\ questions = <<>>
    /\ progress = <<>>
    /\ mathq = <<>>
    /\ reviews = <<>>
    /\ mreviews = <<>>
    /\ sel = IdleSel
    /\ llm = IdleLLM

\* The tail of get_pool from the test of _schema_ready, with no await before
\* it: either _ensure_schema(_pool) starts and the caller waits for it, or
\* the caller returns _pool.
AfterPoolTest(p, d) ==
    IF ~d.schema_ready
    THEN /\ db' = [d EXCEPT !.schema_runs = @ + 1]
         /\ procs' = [procs EXCEPT ![p].pc = "schema"]
    ELSE /\ db' = [d EXCEPT !.handed = @ \cup {d.pool[1]}]
         /\ procs' = [procs EXCEPT ![p].pc = "idle"]

\* get_pool is entered: with _pool None the caller waits for create_pool.
GetPoolCall(p) ==
    /\ procs[p].pc = "idle"
    /\ db.gets < MaxGets
    /\ LET d == [db EXCEPT !.gets = @ + 1]
       IN  IF IsNone(d.pool)
           THEN /\ db' = d
                /\ procs' = [procs EXCEPT ![p].pc = "creating"]
           ELSE AfterPoolTest(p, d)
    /\ UNCHANGED <<calc, card, gen, now, questions, progress, mathq, reviews, mreviews, sel, llm>>

\* create_pool has returned a new pool: it is assigned to _pool, whatever
\* _pool holds by now.
PoolCreated(p) ==
    /\ procs[p].pc = "creating"
    /\ AfterPoolTest(p, [db EXCEPT !.pool = Some(db.next_pool), !.next_pool = @ + 1,
                                   !.created = @ + 1])
    /\ UNCHANGED <<calc, card, gen, now, questions, progress, mathq, reviews, mreviews, sel, llm>>

\* _ensure_schema has returned: _schema_ready is set and the caller returns
\* what _pool holds now.
SchemaDone(p) ==
    /\ procs[p].pc = "schema"
    /\ db' = [db EXCEPT !.schema_ready = TRUE, !.handed = @ \cup {db.pool[1]}]
    /\ procs' = [procs EXCEPT ![p].pc = "idle"]
    /\ UNCHANGED <<calc, card, gen, now, questions, progress, mathq, reviews, mreviews, sel, llm>>

\* close_pool, run by the lifespan at shutdown, when no request is being
\* served: with a pool it closes it and resets both globals.
ClosePool ==
    /\ \A p \in DOMAIN procs : procs[p].pc = "idle"
    /\ db.closes < MaxCloses
    /\ db' = IF IsNone(db.pool)
             THEN [db EXCEPT !.closes = @ + 1]
             ELSE [db EXCEPT !.closes = @ + 1, !.pool = None, !.schema_ready = FALSE,
                             !.created = 0, !.schema_runs = 0, !.handed = {}]
    /\ UNCHANGED <<calc, card, gen, now, questions, progress, mathq, reviews, mreviews, procs, sel, llm>>

NextPool ==
    \/ \E p \in DOMAIN procs : GetPoolCall(p)
    \/ \E p \in DOMAIN procs : PoolCreated(p)
    \/ \E p \in DOMAIN procs : SchemaDone(p)
    \/ ClosePool

SpecPool == InitPool /\ [][NextPool]_vars

\* ================================================================ claims

\* The scheduling fields of the record SpecSR drives.
CardEase == IF card.kind = "regular" THEN card.q.ease_factor
            ELSE IF IsNone(card.p) THEN DefaultEase ELSE Val(card.p).ease_factor
CardInterval == IF card.kind = "regular" THEN card.q.interval_days
                ELSE IF IsNone(card.p) THEN 0 ELSE Val(card.p).interval_days
CardCount == IF card.kind = "regular" THEN card.q.review_count
             ELSE IF IsNone(card.p) THEN 0 ELSE Val(card.p).total_attempts

\* C1: after any sequence of calculate_next_review / calculate_math_review
\* updates that starts from an ease of at least 1.3, whatever the scores, the
\* ease factor the update returned (and the record stores) is at least 1.3.
C1_EaseNeverBelowFloor ==
    card.kind # "idle" => CardEase >= EaseFloor

\* C1 witness: a record that has been updated several times and sits on the
\* floor of 1.3, where every score below 4 would take it lower.
C1_Witness ==
    /\ card.kind = "regular"
    /\ card.q.review_count >= 3
    /\ card.q.ease_factor = EaseFloor

\* C2: after any sequence of updates that starts from interval_days = 0, the
\* stored interval_days is within 0..365, whichever branch each update took.
C2_IntervalWithinBounds ==
    card.kind # "idle" => (0 <= CardInterval /\ CardInterval <= CapDays)

\* C2 witness: a record a run of successes has driven to the cap of 365 days.
C2_Witness ==
    /\ card.kind # "idle"
    /\ CardCount >= 3
    /\ CardInterval = CapDays

\* C3: for every score below 3 and every prior ease, interval and attempt
\* count, calculate_next_review returns interval_days = 0 and
\* next_review_at = now + 10 minutes.
C3_FailedResetsToTenMinutes ==
    (calc.pc = "done" /\ calc.fn = "next" /\ calc.score < 3) =>
        /\ Val(calc.res).interval_days = 0
        /\ Val(calc.res).next_review_at = calc.t + TenMinutes

\* C3 witness: a failed review of an item that had a long interval and
\* earlier attempts.
C3_Witness ==
    /\ calc.pc = "done" /\ calc.fn = "next"
    /\ calc.score < 3 /\ calc.interval > 1 /\ calc.count > 0
    /\ Val(calc.res).interval_days = 0

\* C8: for every template of the registry, every parameter value that
\* generate_params produces lies within the parameter's declared (min, max)
\* range, after the rounding and after the k <= n clamp.
C8_ParamsWithinRanges ==
    gen.pc = "done" =>
        \A name \in DOMAIN gen.params :
            /\ MATH_TEMPLATES[gen.template].param_ranges[name][1] <= gen.params[name]
            /\ gen.params[name] <= MATH_TEMPLATES[gen.template].param_ranges[name][2]

\* C6: whenever the focus flag is set, with or without a topic filter, every
\* fixed item that next_question returns bears the tag 'work', whether the due
\* query or the random fallback found it.
C6_FocusReturnsOnlyWorkItems ==
    (sel.pc = "done" /\ WorkOnly(sel.focus)
        /\ sel.status = 200 /\ sel.question_type = "regular") =>
        "work" \in questions[Val(sel.id)].tags

\* C7: whenever the focus flag is set, next_question returns no math template
\* question: the template pool gives no due, untried or random candidate, no
\* template is picked and no math question is generated.
C7_FocusSuppressesTemplates ==
    (sel.pc = "done" /\ WorkOnly(sel.focus)) =>
        /\ IsNone(sel.math_cand)
        /\ sel.question_type # "math"
        /\ IsNone(sel.template)
        /\ mathq = <<>>

\* C7 witness: a focus call answered with a fixed item drawn by the random
\* fallback while a template is due and others are untried.
C7_Witness ==
    /\ sel.pc = "done" /\ WorkOnly(sel.focus)
    /\ sel.status = 200 /\ sel.question_type = "regular" /\ sel.fallback
    /\ MathDueRows(TemplateIds) # {}
    /\ Untried(TemplateIds) # {}

\* C10: a fixed item whose next_review_at is absent (never reviewed) is
\* treated as due, so that the due query of the fixed-item pool can return it:
\* when the filtered pool holds such an item the due query returns a row.
C10_NeverReviewedIsDue ==
    (sel.pc = "done" /\ sel.route = "learn"
        /\ \E i \in RegularRandomScope(sel.topic, WorkOnly(sel.focus)) :
              IsNone(questions[i].next_review_at)) =>
        ~IsNone(sel.regular_row)

\* The row two submissions leave when the second starts after the first has
\* finished.
SerialRegular(row, first, second) ==
    LET after == UpdateQuestion(row, SrForQuestion(row, first, now))
    IN  UpdateQuestion(after, SrForQuestion(after, second, now))

\* C4: for any interleaving of two concurrent submissions for the same item,
\* the final ease_factor, interval_days and attempt counter are those of
\* running the two submissions one after the other in some order.
C4_NoLostUpdate ==
    (/\ \A p \in {1, 2} : /\ procs[p].pc = "done"
                          /\ procs[p].handler = "regular"
                          /\ procs[p].status = 200
                          /\ procs[p].id = 1
     /\ Len(reviews) = 2) =>
        \E order \in {<<1, 2>>, <<2, 1>>} :
            LET serial == SerialRegular(StartQuestions[1],
                                        procs[order[1]].fb, procs[order[2]].fb)
            IN  /\ questions[1].ease_factor = serial.ease_factor
                /\ questions[1].interval_days = serial.interval_days
                /\ questions[1].review_count = serial.review_count

\* C5: when the feedback generator fails during a submission, the write of
\* the scheduling state of the item or template is performed all the same.
C5_FeedbackFailureStillSchedules ==
    \A p \in Procs :
        (procs[p].pc = "done" /\ procs[p].llm_failed) => procs[p].wrote

\* C9: a generated math question is graded exactly once: no math question
\* has a second outcome record, and no template has more progress updates
\* than it has generated questions.
C9_GradedExactlyOnce ==
    /\ \A m \in DOMAIN mathq :
          Cardinality({i \in DOMAIN mreviews : mreviews[i].math_question_id = m}) <= 1
    /\ \A t \in TemplateIds :
          ~IsNone(progress[t]) =>
              Val(progress[t]).total_attempts
                  <= Cardinality({m \in DOMAIN mathq : mathq[m].template_type = t})

\* The call of calculate_next_review that has returned.
NextReviewDone == calc.pc = "done" /\ calc.fn = "next"

\* C16: for a score of 3 or more, calculate_next_review returns
\* interval_days = 1 whenever attempts_so_far is 0 or the current interval is 0.
C16_FirstSuccessIsOneDay ==
    (NextReviewDone /\ calc.score >= 3 /\ (calc.count = 0 \/ calc.interval = 0)) =>
        Val(calc.res).interval_days = 1

\* C16 witness: a first success on a record that already had a long interval.
C16_Witness ==
    /\ NextReviewDone /\ calc.score >= 3
    /\ calc.count = 0 /\ calc.interval > 1
    /\ Val(calc.res).interval_days = 1

\* C17, as stated: for a score of 3 or more and a current interval of 1,
\* calculate_next_review returns interval_days = 3 for every ease and every
\* attempts_so_far.
C17_SecondSuccessIsThreeDays_AnyAttempts ==
    (NextReviewDone /\ calc.score >= 3 /\ calc.interval = 1) =>
        Val(calc.res).interval_days = 3

\* C17, amended: for a score of 3 or more, a current interval of 1 and at
\* least one earlier attempt, calculate_next_review returns interval_days = 3
\* for every ease; with no earlier attempt the first-success rule comes first.
C17_SecondSuccessIsThreeDays ==
    (NextReviewDone /\ calc.score >= 3 /\ calc.interval = 1 /\ calc.count > 0) =>
        Val(calc.res).interval_days = 3

\* C17 witness: a success on a record with interval 1 and an earlier attempt.
C17_Witness ==
    /\ NextReviewDone /\ calc.score >= 3
    /\ calc.interval = 1 /\ calc.count > 0
    /\ Val(calc.res).interval_days = 3

\* C18: for a score of 3 or more, attempts_so_far > 0 and a current interval of
\* 2 or more, the returned interval_days is min(365, round(interval_days x
\* new_ease)) for the ease_factor the same call returns, whether round is the
\* rounding of the doubles, the half-even or the half-up rounding of the product.
C18_IntervalIsRoundedProduct ==
    (NextReviewDone /\ calc.score >= 3 /\ calc.count > 0 /\ calc.interval >= 2) =>
        LET new_ease == Val(calc.res).ease_factor
            n        == calc.interval * new_ease
        IN  Val(calc.res).interval_days \in
                {Min(CapDays, RoundStoredProduct(new_ease, calc.interval)),
                 Min(CapDays, RoundHalfEven(n, 100)),
                 Min(CapDays, RoundHalfUp(n, 100))}

\* C19: a score outside [1, 5] is treated as the nearest bound: below 1 the
\* result is that of score 1, above 5 that of score 5, for every ease,
\* interval and attempts, and every call returns a result.
C19_OutOfRangeScoreIsClamped ==
    NextReviewDone =>
        /\ ~IsNone(calc.res)
        /\ calc.score < 1 =>
              Val(calc.res) = calculate_next_review(1, calc.ease, calc.interval,
                                                    calc.count, calc.t)
        /\ calc.score > 5 =>
              Val(calc.res) = calculate_next_review(5, calc.ease, calc.interval,
                                                    calc.count, calc.t)

\* C19 witness: a call with a score above 5 that raised the ease as score 5
\* does and multiplied a long interval.
C19_Witness ==
    /\ NextReviewDone /\ calc.score > 5
    /\ calc.count > 0 /\ calc.interval >= 2
    /\ Val(calc.res).ease_factor = calc.ease + EaseDelta(5)

\* C20: calculate_math_review returns what calculate_next_review returns for
\* score 4 when is_correct is true and for score 2 when it is false, for every
\* ease, interval and attempts.
C20_MathReviewIsScoreFourOrTwo ==
    (calc.pc = "done" /\ calc.fn = "math") =>
        Val(calc.res) = calculate_next_review(IF calc.is_correct THEN 4 ELSE 2,
                                              calc.ease, calc.interval, calc.count, calc.t)

\* C20 witness: a correct math answer on a template with a long interval: the
\* ease stays as score 4 leaves it and the interval grows.
C20_Witness ==
    /\ calc.pc = "done" /\ calc.fn = "math" /\ calc.is_correct
    /\ calc.count > 0 /\ calc.interval >= 2
    /\ Val(calc.res).ease_factor = calc.ease
    /\ Val(calc.res).interval_days > calc.interval

\* The fixed-item pool under the filters of a request: the questions of the
\* topic, when one is given, that bear the tag 'work', when the focus is set.
FilteredQuestions(topic, focus) ==
    {i \in DOMAIN questions :
        /\ Truthy(topic) => questions[i].topic = Val(topic)
        /\ WorkOnly(focus) => "work" \in questions[i].tags}

\* The template pool under the filters of a request: none with the focus set,
\* else the templates of the topic, when one is given.
FilteredTemplates(topic, focus) ==
    {t \in TemplateIds :
        /\ ~WorkOnly(focus)
        /\ Truthy(topic) => MATH_TEMPLATES[t].topic = Val(topic)}

DueQuestions(topic, focus) ==
    {i \in FilteredQuestions(topic, focus) : SqlDue(questions[i].next_review_at, now)}

DueTemplates(topic, focus) ==
    {t \in FilteredTemplates(topic, focus) :
        ~IsNone(progress[t]) /\ SqlDue(Val(progress[t]).next_review_at, now)}

UntriedTemplates(topic, focus) ==
    {t \in FilteredTemplates(topic, focus) : IsNone(progress[t])}

\* Row a is not after row b in the order of the due queries.
NotAfter(a, b) ==
    /\ Val(a.next_review_at) <= Val(b.next_review_at)
    /\ Val(a.next_review_at) = Val(b.next_review_at) => a.ease_factor <= b.ease_factor

\* C11: the due candidate of each pool is a record with next_review_at <= now
\* that no due record of the pool precedes: it has the smallest next_review_at
\* and, among those with that next_review_at, the lowest ease_factor.
C11_DueCandidateIsMostOverdue ==
    sel.pc = "done" =>
        /\ ~IsNone(sel.regular_row) =>
              LET row == questions[Val(sel.regular_row)]
              IN  /\ SqlDue(row.next_review_at, now)
                  /\ \A j \in DueQuestions(sel.topic, sel.focus) : NotAfter(row, questions[j])
        /\ (~IsNone(sel.math_cand) /\ Val(sel.math_cand) \notin UntriedTemplates(sel.topic, sel.focus)) =>
              LET row == Val(progress[Val(sel.math_cand)])
              IN  /\ SqlDue(row.next_review_at, now)
                  /\ \A u \in DueTemplates(sel.topic, sel.focus) :
                        NotAfter(row, Val(progress[u]))

\* C11 witness: both pools gave a due candidate, and in each pool another due
\* record has the same next_review_at and a higher ease_factor.
C11_Witness ==
    /\ sel.pc = "done" /\ sel.route = "learn"
    /\ ~IsNone(sel.regular_row) /\ ~IsNone(sel.math_cand)
    /\ \E j \in DueQuestions(sel.topic, sel.focus) :
          /\ questions[j].next_review_at = questions[Val(sel.regular_row)].next_review_at
          /\ questions[j].ease_factor > questions[Val(sel.regular_row)].ease_factor
    /\ \E u \in DueTemplates(sel.topic, sel.focus) :
          /\ Val(progress[u]).next_review_at = Val(progress[Val(sel.math_cand)]).next_review_at
          /\ Val(progress[u]).ease_factor > Val(progress[Val(sel.math_cand)]).ease_factor

\* GET /learn/next can put the template t forward as its due / untried candidate.
LearnCanPropose(topic, t) ==
    ENABLED (LearnNextWith(topic, None, TRUE) /\ sel'.math_cand = Some(t))

\* GET /math/next without template_type can choose the template t in its
\* due / untried step.
MathCanPropose(topic, t) ==
    ENABLED (MathNextWith(topic, None, TRUE) /\ sel'.math_cand = Some(t))

\* C12, for /learn/next: when no progress record in scope is due and some
\* template in scope has none, the template candidate is an untried template
\* and every untried template can be it.
C12_LearnUntriedChosenAtRandom ==
    /\ (sel.pc = "done" /\ sel.route = "learn" /\ ~IsNone(sel.math_cand)
            /\ DueTemplates(sel.topic, sel.focus) = {}) =>
          Val(sel.math_cand) \in UntriedTemplates(sel.topic, sel.focus)
    /\ sel.pc = "idle" =>
          \A topic \in TopicInputs :
              DueTemplates(topic, None) = {} =>
                  \A t \in UntriedTemplates(topic, None) : LearnCanPropose(topic, t)

\* C12: when no progress record in scope is due and some template in scope
\* has none, the template chosen by /learn/next (as its template candidate) and
\* by /math/next is an untried template, and every template of the untried set
\* can be the one chosen.
C12_UntriedChosenAtRandom ==
    /\ (sel.pc = "done" /\ ~IsNone(sel.math_cand)
            /\ DueTemplates(sel.topic, sel.focus) = {}) =>
          Val(sel.math_cand) \in UntriedTemplates(sel.topic, sel.focus)
    /\ sel.pc = "idle" =>
          \A topic \in TopicInputs :
              DueTemplates(topic, None) = {} =>
                  \A t \in UntriedTemplates(topic, None) :
                      LearnCanPropose(topic, t) /\ MathCanPropose(topic, t)

\* The response of GET /learn/next returned the question i / made a question
\* of the template t.
ReturnsQuestion == sel.status = 200 /\ sel.question_type = "regular"
ReturnsTemplate == sel.status = 200 /\ sel.question_type = "math"
ReturnedQuestion(i) == ReturnsQuestion /\ sel.id = Some(i)
ReturnedTemplate(t) == ReturnsTemplate /\ sel.template = Some(t)

\* C13: next_question adds random candidates only when neither pool gave a due
\* or untried candidate, and then one member of each non-empty pool under the
\* topic and focus filters; when a pool gave a due or untried candidate, what
\* is returned is a due question, or a due or untried template.
C13_FallbackOnlyWhenNothingDue ==
    (sel.pc = "done" /\ sel.route = "learn") =>
        LET pool_q == FilteredQuestions(sel.topic, sel.focus)
            pool_t == FilteredTemplates(sel.topic, sel.focus)
        IN  IF ~IsNone(sel.regular_row) \/ ~IsNone(sel.math_cand)
            THEN /\ IsNone(sel.random_regular) /\ IsNone(sel.random_math)
                 /\ ReturnsQuestion =>
                       SqlDue(questions[Val(sel.id)].next_review_at, now)
                 /\ ReturnsTemplate =>
                       Val(sel.template) \in DueTemplates(sel.topic, sel.focus)
                                               \cup UntriedTemplates(sel.topic, sel.focus)
            ELSE /\ IF pool_q = {} THEN IsNone(sel.random_regular)
                    ELSE ~IsNone(sel.random_regular) /\ Val(sel.random_regular) \in pool_q
                 /\ IF pool_t = {} THEN IsNone(sel.random_math)
                    ELSE ~IsNone(sel.random_math) /\ Val(sel.random_math) \in pool_t
                 /\ ReturnsQuestion => sel.random_regular = sel.id
                 /\ ReturnsTemplate => sel.random_math = sel.template

\* C13 witness: a focus request with a topic where nothing is due: the random
\* draw took a question with the tag among questions of the topic without it,
\* and that question is returned though it is not due.
C13_Witness ==
    /\ sel.pc = "done" /\ sel.route = "learn" /\ sel.fallback
    /\ Truthy(sel.topic) /\ WorkOnly(sel.focus)
    /\ \E i \in DOMAIN questions :
          /\ ReturnedQuestion(i)
          /\ ~IsNone(questions[i].next_review_at)
          /\ ~SqlDue(questions[i].next_review_at, now)
    /\ \E j \in DOMAIN questions :
          questions[j].topic = Val(sel.topic) /\ "work" \notin questions[j].tags

\* Both pools give GET /learn/next a candidate: each a due / untried one, or,
\* when neither has one, each a random one.
BothPoolsHaveCandidate(topic, focus) ==
    LET due_q == RegularDueRows(topic, WorkOnly(focus))
        due_t == DueTemplates(topic, focus) \cup UntriedTemplates(topic, focus)
    IN  \/ due_q # {} /\ due_t # {}
        \/ /\ due_q = {} /\ due_t = {}
           /\ FilteredQuestions(topic, focus) # {}
           /\ FilteredTemplates(topic, focus) # {}

\* GET /learn/next with these parameters can return an item of the kind.
LearnCanReturn(topic, focus, kind) ==
    ENABLED (LearnNextWith(topic, focus, TRUE)
                /\ sel'.status = 200 /\ sel'.question_type = kind)

\* C14: when both pools produced a candidate, the pick is made between exactly
\* those two: what is returned is one of them, and either kind can be
\* returned, whatever the size of each pool and however overdue each candidate.
C14_PickBetweenTheTwoCandidates ==
    /\ (sel.pc = "done" /\ sel.route = "learn"
            /\ BothPoolsHaveCandidate(sel.topic, sel.focus)) =>
          /\ ReturnsQuestion =>
                sel.id = (IF sel.fallback THEN sel.random_regular ELSE sel.regular_row)
          /\ ReturnsTemplate =>
                sel.template = (IF sel.fallback THEN sel.random_math ELSE sel.math_cand)
    /\ sel.pc = "idle" =>
          \A topic \in TopicInputs, focus \in FocusInputs :
              BothPoolsHaveCandidate(topic, focus) =>
                  /\ LearnCanReturn(topic, focus, "regular")
                  /\ LearnCanReturn(topic, focus, "math")

\* C14 witness: the question is returned though its pool is the smaller one
\* and the template candidate is overdue since longer.
C14_Witness ==
    /\ sel.pc = "done" /\ sel.route = "learn" /\ ~sel.fallback
    /\ ~IsNone(sel.regular_row) /\ ~IsNone(sel.math_cand)
    /\ ReturnedQuestion(Val(sel.regular_row))
    /\ Val(sel.math_cand) \in DueTemplates(sel.topic, sel.focus)
    /\ Val(Val(progress[Val(sel.math_cand)]).next_review_at)
          < Val(questions[Val(sel.regular_row)].next_review_at)
    /\ Cardinality(FilteredQuestions(sel.topic, sel.focus))
          < Cardinality(FilteredTemplates(sel.topic, sel.focus))

\* C15: next_question, when the text generator does not fail, answers 404
\* exactly when no candidate exists in either pool under the active filters,
\* that is when both filtered pools are empty; and then no record of the store
\* is created or changed.
C15_NotFoundIffPoolsEmpty ==
    (sel.pc = "done" /\ sel.route = "learn" /\ sel.status # 500) =>
        /\ sel.status = 404 <=>
              (FilteredQuestions(sel.topic, sel.focus) = {}
                  /\ FilteredTemplates(sel.topic, sel.focus) = {})
        /\ sel.status = 404 => mathq = <<>>


\* ---------------------------------------------------------------- C21

GradeDone == calc.pc = "done" /\ calc.fn = "grade"

\* C21: grade_math_answer returns a verdict for every input and never raises;
\* the verdict is "correct" exactly when the correct answer is within 0.0001
\* of zero and the absolute difference is under the tolerance, or the correct
\* answer is not within 0.0001 of zero and the relative error or the absolute
\* difference is under the tolerance.
C21_GradeVerdict ==
    GradeDone =>
        LET absdiff   == Abs(calc.diff)
            near_zero == Abs(calc.correct) < NearZero
            abs_ok    == absdiff < calc.tolerance * 1000
            rel_ok    == absdiff * 100 < calc.tolerance * Abs(calc.correct)
        IN  /\ ~calc.raised
            /\ calc.is_correct <=> ((near_zero /\ abs_ok) \/ (~near_zero /\ (rel_ok \/ abs_ok)))

\* An answer accepted on the relative criterion alone, off by more than the
\* tolerance in absolute terms.
C21_Witness ==
    /\ GradeDone
    /\ calc.is_correct
    /\ Abs(calc.correct) >= NearZero
    /\ Abs(calc.diff) >= calc.tolerance * 1000


\* ---------------------------------------------------------------- C22

\* The templates whose param_ranges declare both k and n.
TemplatesWithKAndN == {t \in TemplateIds : {"k", "n"} \subseteq DOMAIN MATH_TEMPLATES[t].param_ranges}

\* C22: for every template that declares both k and n, every assignment that
\* generate_params produces has k <= n.
C22_SuccessesWithinTrials ==
    (gen.pc = "done" /\ gen.template \in TemplatesWithKAndN) =>
        gen.params["k"] <= gen.params["n"]

\* A binomial assignment with k equal to an n that lies below the least k the
\* k range can give at the top of the grid: k was cut down to n.
C22_Witness ==
    /\ gen.pc = "done"
    /\ gen.template \in TemplatesWithKAndN
    /\ gen.params["k"] = gen.params["n"]
    /\ gen.params["n"] < MATH_TEMPLATES[gen.template].param_ranges["k"][2]
    /\ gen.params["n"] = MATH_TEMPLATES[gen.template].param_ranges["n"][1]


\* ---------------------------------------------------------------- C23

\* Question q has a stored review: a submission for it has been graded.
HasGradedSubmission(q) == \E i \in DOMAIN mreviews : mreviews[i].math_question_id = q

\* C23: no response carries the correct answer of a math question before a
\* submission for that question has been graded.  The responses of /learn/next
\* and /math/next have no correct_answer; every entry of /math/history and
\* every submit response that has one belongs to a graded submission.
C23_AnswerNotRevealedBeforeGrading ==
    /\ (sel.pc = "done" /\ sel.route \in {"learn", "math"} /\ sel.status = 200) =>
          "correct_answer" \notin DOMAIN sel.body
    /\ (sel.pc = "done" /\ sel.route = "history") =>
          \A k \in DOMAIN sel.body :
              /\ sel.body[k].id \in DOMAIN mreviews
              /\ HasGradedSubmission(mreviews[sel.body[k].id].math_question_id)
              /\ sel.body[k].correct_answer =
                     mathq[mreviews[sel.body[k].id].math_question_id].correct_answer
    /\ \A p \in DOMAIN procs :
          (procs[p].pc = "done" /\ procs[p].handler = "math" /\ ~IsNone(procs[p].response)) =>
              ("correct_answer" \in DOMAIN Val(procs[p].response) =>
                  HasGradedSubmission(procs[p].id))

\* A generated question has just been returned and nothing has been submitted
\* for it.
C23_Witness ==
    /\ sel.pc = "done" /\ sel.route \in {"learn", "math"} /\ sel.status = 200
    /\ sel.question_type = "math"
    /\ mathq[sel.body.id].correct_answer = SelectAnswer
    /\ ~HasGradedSubmission(sel.body.id)


\* ---------------------------------------------------------------- C24

\* The handler in frame p has answered a math submission whose answer is no number.
RejectedAsNonNumeric(p) ==
    /\ procs[p].pc = "done" /\ procs[p].handler = "math"
    /\ IsNone(procs[p].answer)

\* C24: a math submission whose answer is not numeric is answered with a
\* client error (400, or 422 from the float field of /math/submit) whether or
\* not the question exists, nothing of it is graded or written, and the step
\* that rejects it leaves every table as it was.
C24_NonNumericRejectedBeforeGrading ==
    /\ [](\A p \in DOMAIN procs :
             RejectedAsNonNumeric(p) =>
                 /\ procs[p].status \in {400, 422}
                 /\ ~procs[p].wrote
                 /\ ~procs[p].is_correct
                 /\ IsNone(procs[p].response))
    /\ [][\A p \in DOMAIN procs :
             (procs[p].pc = "idle" /\ p \in DOMAIN procs' /\ procs'[p].pc = "done"
                 /\ procs'[p].handler = "math" /\ IsNone(procs'[p].answer)) =>
                 UNCHANGED <<questions, progress, mathq, reviews, mreviews>>]_vars

\* A non-numeric answer for a stored question was rejected through
\* /learn/submit, and the question's template still has no progress row.
C24_Witness ==
    /\ RejectedAsNonNumeric(1)
    /\ procs[1].route = "learn" /\ procs[1].status = 400
    /\ procs[1].id \in DOMAIN mathq
    /\ IsNone(progress[mathq[procs[1].id].template_type])
    /\ mreviews = <<>>


\* ---------------------------------------------------------------- C25

\* C25: once set_llm_provider(p) has run, every later feedback call is served
\* by provider p and by p's model, whatever client an earlier call created.
C25_FeedbackFollowsRuntimeProvider ==
    llm.pc = "run" =>
        \A i \in DOMAIN llm.calls :
            (llm.calls[i].fn = "get_feedback" /\ ~IsNone(llm.calls[i].runtime)) =>
                /\ llm.calls[i].provider = Val(llm.calls[i].runtime)
                /\ llm.calls[i].model = ModelOf(Val(llm.calls[i].runtime))


\* ---------------------------------------------------------------- C26

\* C26: every tag list that create_question or update_question has written
\* holds at most 2 tags, so every stored question passes the Question
\* response model.
C26_StoredTagsAtMostTwo ==
    \A i \in DOMAIN questions :
        /\ Len(questions[i].tags) <= MaxTags
        /\ ~normalize_tags(Some(questions[i].tags)).raised


\* ---------------------------------------------------------------- C27

\* The stored reviews of the questions generated from template t: the
\* submissions for t that ran to their response.
CompletedSubmissions(t) ==
    {i \in DOMAIN mreviews : mathq[mreviews[i].math_question_id].template_type = t}

CorrectSubmissions(t) == {i \in CompletedSubmissions(t) : mreviews[i].is_correct}

\* No handler is between two of its statements.
Quiescent == \A p \in DOMAIN procs : procs[p].pc \in {"idle", "done"}

\* C27: when submissions run one after another, a template has no progress
\* record until its first completed submission, and from then on
\* total_attempts is the number of completed submissions (1 after the first)
\* and correct_attempts the number graded correct, so
\* 0 <= correct_attempts <= total_attempts.
C27_AttemptCountsMatchSubmissions ==
    Quiescent =>
        \A t \in TemplateIds :
            IF CompletedSubmissions(t) = {}
            THEN IsNone(progress[t])
            ELSE /\ ~IsNone(progress[t])
                 /\ Val(progress[t]).total_attempts = Cardinality(CompletedSubmissions(t))
                 /\ Val(progress[t]).correct_attempts = Cardinality(CorrectSubmissions(t))
                 /\ 0 <= Val(progress[t]).correct_attempts
                 /\ Val(progress[t]).correct_attempts <= Val(progress[t]).total_attempts

\* Three submissions for one template have completed, one of them correct.
C27_Witness ==
    /\ Quiescent
    /\ \E t \in TemplateIds :
          /\ Cardinality(CompletedSubmissions(t)) = 3
          /\ Cardinality(CorrectSubmissions(t)) = 1
          /\ Val(progress[t]).total_attempts = 3

\* ---------------------------------------------------------------- C28

\* What a score of 2 takes off the ease: 0.1 - 3 * (0.08 + 3 * 0.02) = -0.32.
MathEaseStep == 32

\* C28: a template's ease_factor starts from 2.5 and stays within [1.3, 2.5];
\* a submission never raises it: a correct answer leaves it as it is and an
\* incorrect answer lowers it by 0.32, not below 1.3.
C28_TemplateEaseNeverIncreases ==
    /\ [](card.kind = "math" =>
             /\ CardEase >= EaseFloor /\ CardEase <= DefaultEase
             /\ IsNone(card.p) => CardEase = DefaultEase)
    /\ [][(card.kind = "math" /\ card'.kind = "math" /\ CardCount' = CardCount + 1) =>
             LET was_correct == Val(card'.p).correct_attempts
                                  = (IF IsNone(card.p) THEN 0 ELSE Val(card.p).correct_attempts) + 1
             IN  /\ CardEase' <= CardEase
                 /\ was_correct => CardEase' = CardEase
                 /\ ~was_correct => CardEase' = Max(EaseFloor, CardEase - MathEaseStep)]_vars

\* The floor reached after a run of wrong answers, and a correct answer after it.
C28_Witness ==
    /\ card.kind = "math" /\ ~IsNone(card.p)
    /\ Val(card.p).ease_factor = EaseFloor
    /\ Val(card.p).correct_attempts = 1
    /\ Val(card.p).total_attempts = 5


\* ---------------------------------------------------------------- C29

\* C29: on an item with review_count > 0 every success (score >= 3) strictly
\* increases interval_days while it is below 365 and keeps it at 365 once
\* there, so a run of consecutive successes reaches 365 and stays.
C29_SuccessesReachTheCap ==
    /\ [][(card.kind = "regular" /\ card.q.review_count > 0
              /\ card'.q.review_count = card.q.review_count + 1) =>
             IF card.q.interval_days < CapDays
             THEN card'.q.interval_days > card.q.interval_days
             ELSE card'.q.interval_days = CapDays]_vars
    /\ <>[](card.q.interval_days = CapDays)

\* A run that started below the cap has reached it and has been reviewed
\* again there.
C29_Witness ==
    /\ card.kind = "regular"
    /\ card.q.interval_days = CapDays
    /\ card.kept = MaxKept
    /\ card.q.review_count > MaxKept + 3


\* ---------------------------------------------------------------- C30

\* C30: between the start of the process (or the last close_pool) and the
\* next close_pool, whatever the interleaving of the get_pool calls, at most
\* one pool is created, the schema setup runs at most once, and every caller
\* receives the same pool.
C30_OnePoolOneSchemaSetup ==
    /\ db.created <= 1
    /\ db.schema_runs <= 1
    /\ Cardinality(db.handed) <= 1

====
